---- MODULE Spec2Model ----
(***************************************************************************)
(* The last-run action (src/src/index.ts): one invocation reads its inputs, *)
(* optionally retrieves the newest stored `last-run` timestamp from the     *)
(* repository's artifacts, optionally stores a new timestamp, and reports   *)
(* through core.setOutput / core.setFailed / core.warning.                  *)
(*                                                                         *)
(* src/src/index.ts holds three revisions of the action.  Revision 1 is     *)
(* lines 1-395 (server-side name filter, zip download), revision 2 is lines *)
(* 397-782 (download into a directory, file read without trimming) and      *)
(* revision 3 is lines 784-1067 (paged listing with a client-side name      *)
(* filter, zip download).  The variable rev says which one is deployed.     *)
(*                                                                         *)
(* JavaScript strings are sequences of one-character strings; null is the   *)
(* value Null; a log message is a one-element sequence holding its text.    *)
(***************************************************************************)
EXTENDS Integers, Sequences, FiniteSets, TLC

-----------------------------------------------------------------------------
(* Bounds of the model *)

\* the clock reads StartMs..MaxClock, in ms after 2025-01-01T00:00:00.000Z
StartMs == 999

MaxClock == 1000

\* invocations that may run one after the other under SpecSeq
MaxRuns == 2

\* the most failures a remote call has in store before it would succeed
MaxFails == 3

-----------------------------------------------------------------------------
(* Strings *)

\* the characters the model uses, in ascending UTF-16 code unit order
Chars ==
  << "\n", " ", "-", ".", "/",
     "0", "1", "2", "3", "4", "5", "6", "7", "8", "9", ":",
     "E", "G", "S", "T", "Z", "_",
     "a", "d", "e", "g", "i", "m", "n", "o", "p", "r", "s", "t", "y", "z" >>

\* the rank of each character in that order
CodeOf ==
  [c \in { Chars[i] : i \in 1..Len(Chars) } |->
     CHOOSE i \in 1..Len(Chars) : Chars[i] = c]

Code(c) == CodeOf[c]

Null == << "null" >>

Msg(text) == << text >>

\* JavaScript truthiness of a string | null value
Truthy(v) == v # Null /\ v # << >>

\* a < b on JavaScript strings: code unit order, a proper prefix is smaller
StrLess(a, b) ==
  \E i \in 1..Len(b) :
    /\ i <= Len(a) + 1
    /\ \A j \in 1..(i - 1) : a[j] = b[j]
    /\ (i = Len(a) + 1 \/ Code(a[i]) < Code(b[i]))

\* a <= b on JavaScript strings
StrLeq(a, b) == a = b \/ StrLess(a, b)

IsSpace(c) == c \in { " ", "\n" }

\* String.prototype.trim
Trim(s) ==
  LET keep == { i \in 1..Len(s) : ~IsSpace(s[i]) }
  IN  IF keep = {} THEN << >>
      ELSE LET lo == CHOOSE i \in keep : \A j \in keep : i <= j
               hi == CHOOSE i \in keep : \A j \in keep : j <= i
           IN  SubSeq(s, lo, hi)

LowerChar(c) ==
  CASE c = "E" -> "e"
    [] c = "G" -> "g"
    [] c = "S" -> "s"
    [] c = "T" -> "t"
    [] c = "Z" -> "z"
    [] OTHER -> c

\* String.prototype.toLowerCase
ToLowerCase(s) == [i \in 1..Len(s) |-> LowerChar(s[i])]

IsDigit(c) == c \in { "0", "1", "2", "3", "4", "5", "6", "7", "8", "9" }

DigitChar(d) == Chars[Code("0") + d]

DigitVal(c) == Code(c) - Code("0")

\* the two-digit number at s[i], s[i+1]
Num2(s, i) == 10 * DigitVal(s[i]) + DigitVal(s[i + 1])

-----------------------------------------------------------------------------
(* Constants of the program *)

ARTIFACT_NAME == "last-run"

\* the loop of setLastRun regenerates the timestamp at most this often
SafeguardCap == 1000

\* listArtifactsForRepo page size, and the page cap of revision 3
PerPage == 100

PageCap == 10

MissingMsg == Msg("No valid previous run timestamp found.")

\* the retries the README promises for a remote call after its first attempt
Retries == 2

-----------------------------------------------------------------------------
(* new Date().toISOString() *)

\* ms is the clock in ms after 2025-01-01T00:00:00.000Z, within its first
\* minute: YYYY-MM-DDTHH:mm:ss.sssZ
\* the instant formatted with a numeric offset in place of the Z
toISOString_withOffset(ms) ==
  << "2", "0", "2", "5", "-", "0", "1", "-", "0", "1", "T",
     "0", "0", ":", "0", "0", ":" >>
  \o << DigitChar((ms \div 10000) % 10), DigitChar((ms \div 1000) % 10), ".",
        DigitChar((ms \div 100) % 10), DigitChar((ms \div 10) % 10),
        DigitChar(ms % 10), "+", "0", "0", ":", "0", "0" >>

toISOString(ms) ==
  << "2", "0", "2", "5", "-", "0", "1", "-", "0", "1", "T",
     "0", "0", ":", "0", "0", ":" >>
  \o << DigitChar((ms \div 10000) % 10), DigitChar((ms \div 1000) % 10), ".",
        DigitChar((ms \div 100) % 10), DigitChar((ms \div 10) % 10),
        DigitChar(ms % 10), "Z" >>

\* created_at as the artifact service writes it: whole seconds, YYYY-MM-DDTHH:mm:ssZ
createdAtOf(ms) ==
  << "2", "0", "2", "5", "-", "0", "1", "-", "0", "1", "T",
     "0", "0", ":", "0", "0", ":" >>
  \o << DigitChar((ms \div 10000) % 10), DigitChar((ms \div 1000) % 10), "Z" >>

-----------------------------------------------------------------------------
(* validateIsoTimestamp *)

\* the pattern without its $ anchor: whatever follows the Z is accepted
ISO_REGEX_unanchored(s) ==
  /\ Len(s) >= 20
  /\ \A i \in { 1, 2, 3, 4, 6, 7, 9, 10, 12, 13, 15, 16, 18, 19 } : IsDigit(s[i])
  /\ s[5] = "-" /\ s[8] = "-" /\ s[11] = "T" /\ s[14] = ":" /\ s[17] = ":"
  /\ \/ s[20] = "Z"
     \/ /\ s[20] = "."
        /\ \E n \in 22..Len(s) :
             s[n] = "Z" /\ \A i \in 21..(n - 1) : IsDigit(s[i])

\* /^\d{4}-\d{2}-\d{2}T\d{2}:\d{2}:\d{2}(?:\.\d+)?Z$/.test(s)
ISO_REGEX(s) ==
  /\ Len(s) >= 20
  /\ \A i \in { 1, 2, 3, 4, 6, 7, 9, 10, 12, 13, 15, 16, 18, 19 } : IsDigit(s[i])
  /\ s[5] = "-" /\ s[8] = "-" /\ s[11] = "T" /\ s[14] = ":" /\ s[17] = ":"
  /\ \/ Len(s) = 20 /\ s[20] = "Z"
     \/ /\ Len(s) >= 22
        /\ s[20] = "."
        /\ \A i \in 21..(Len(s) - 1) : IsDigit(s[i])
        /\ s[Len(s)] = "Z"

\* Date.parse taking a fraction of exactly three digits only
DateParseIsNaN_threeDigitFraction(s) ==
  LET month == Num2(s, 6)
      day == Num2(s, 9)
      hour == Num2(s, 12)
      minute == Num2(s, 15)
      second == Num2(s, 18)
  IN  ~ /\ month \in 1..12
        /\ day \in 1..31
        /\ hour \in 0..23
        /\ minute \in 0..59
        /\ second \in 0..59
        /\ Len(s) \in { 20, 24 }

\* Number.isNaN(Date.parse(s)) for a string the regex accepts (V8: month 1-12,
\* day 1-31 whatever the month, 24:00:00 as the only hour 24)
DateParseIsNaN(s) ==
  LET month == Num2(s, 6)
      day == Num2(s, 9)
      hour == Num2(s, 12)
      minute == Num2(s, 15)
      second == Num2(s, 18)
      fractionZero == \A i \in 21..(Len(s) - 1) : s[i] = "0"
  IN  ~ /\ month \in 1..12
        /\ day \in 1..31
        /\ minute \in 0..59
        /\ second \in 0..59
        /\ \/ hour \in 0..23
           \/ hour = 24 /\ minute = 0 /\ second = 0 /\ fractionZero

\* validateIsoTimestamp trimming the value before it looks at it
validateIsoTimestamp_trims(value) ==
  IF ~Truthy(value) \/ Trim(value) = << >> THEN [ok |-> FALSE, reason |-> "empty"]
  ELSE IF ~ISO_REGEX(Trim(value)) THEN [ok |-> FALSE, reason |-> "pattern"]
  ELSE IF DateParseIsNaN(Trim(value)) THEN [ok |-> FALSE, reason |-> "parse"]
  ELSE [ok |-> TRUE, reason |-> "none"]

\* if (!value) empty; if (!ISO_REGEX.test(value)) pattern;
\* if (Number.isNaN(Date.parse(value))) parse; else ok
validateIsoTimestamp(value) ==
  IF ~Truthy(value) THEN [ok |-> FALSE, reason |-> "empty"]
  ELSE IF ~ISO_REGEX(value) THEN [ok |-> FALSE, reason |-> "pattern"]
  ELSE IF DateParseIsNaN(value) THEN [ok |-> FALSE, reason |-> "parse"]
  ELSE [ok |-> TRUE, reason |-> "none"]

-----------------------------------------------------------------------------
(* collectInputs, deriveOperations *)

M_get == << "g", "e", "t" >>

M_set == << "s", "e", "t" >>

M_get_and_set == << "g", "e", "t", "-", "a", "n", "d", "-", "s", "e", "t" >>

M_getset == << "g", "e", "t", "s", "e", "t" >>

M_get_and_set_u == << "g", "e", "t", "_", "a", "n", "d", "_", "s", "e", "t" >>

\* deriveOperations with an unknown mode treated as get-and-set
deriveOperations_unknownStores(mode) ==
  IF mode = M_get THEN [get |-> TRUE, set |-> FALSE]
  ELSE IF mode = M_set THEN [get |-> FALSE, set |-> TRUE]
  ELSE [get |-> TRUE, set |-> TRUE]

\* deriveOperations with an unknown mode treated as set
deriveOperations_unknownIsSet(mode) ==
  IF mode = M_get THEN [get |-> TRUE, set |-> FALSE]
  ELSE IF mode = M_get_and_set \/ mode = M_getset \/ mode = M_get_and_set_u
    THEN [get |-> TRUE, set |-> TRUE]
  ELSE [get |-> FALSE, set |-> TRUE]

\* deriveOperations with set retrieving first, as get-and-set does
deriveOperations_setAlsoGets(mode) ==
  IF mode = M_get THEN [get |-> TRUE, set |-> FALSE]
  ELSE IF mode = M_set THEN [get |-> TRUE, set |-> TRUE]
  ELSE IF mode = M_get_and_set \/ mode = M_getset \/ mode = M_get_and_set_u
    THEN [get |-> TRUE, set |-> TRUE]
  ELSE [get |-> TRUE, set |-> FALSE]

deriveOperations(mode) ==
  IF mode = M_get THEN [get |-> TRUE, set |-> FALSE]
  ELSE IF mode = M_set THEN [get |-> FALSE, set |-> TRUE]
  ELSE IF mode = M_get_and_set \/ mode = M_getset \/ mode = M_get_and_set_u
    THEN [get |-> TRUE, set |-> TRUE]
  ELSE [get |-> TRUE, set |-> FALSE]

\* the mode compared as it was typed, but for the surrounding white space
normalizeMode_caseSensitive(input) ==
  LET modeRaw == Trim(input)
  IN  IF modeRaw # << >> THEN modeRaw ELSE M_get

\* (modeRaw || 'get').toLowerCase() of the trimmed input
normalizeMode(input) ==
  LET modeRaw == Trim(input)
  IN  ToLowerCase(IF modeRaw # << >> THEN modeRaw ELSE M_get)

collectInputs(input, failIfMissing) ==
  LET mode == normalizeMode(input)
  IN  [mode |-> mode, failIfMissing |-> failIfMissing,
       operations |-> deriveOperations(mode)]

-----------------------------------------------------------------------------
(* The remote artifact store *)

\* An artifact: id, name, created_at, expired, and what its download holds:
\* kind "file" (last-run.txt with content), "nofile" (no last-run.txt) or
\* "corrupt" (an archive that cannot be opened).
Artifact(id, name, created_at, expired, kind, content) ==
  [id |-> id, name |-> name, created_at |-> created_at, expired |-> expired,
   kind |-> kind, content |-> content]

Min(a, b) == IF a <= b THEN a ELSE b

\* one page of a listing
PageOf(artifacts, page) ==
  SubSeq(artifacts, (page - 1) * PerPage + 1, Min(page * PerPage, Len(artifacts)))

\* revisions 1 and 2: listArtifactsForRepo({ per_page, name }), first page only
listRepoArtifactsByName(artifacts, name) ==
  PageOf(SelectSeq(artifacts, LAMBDA a : a.name = name), 1)

\* revision 3: pages of the unfiltered listing, filtered by name on the client
RECURSIVE listAllRepoArtifactsByName(_, _, _, _)
listAllRepoArtifactsByName(artifacts, name, page, matches) ==
  LET got == PageOf(artifacts, page)
      all == matches \o SelectSeq(got, LAMBDA a : a.name = name)
  IN  IF Len(got) < PerPage THEN all
      ELSE IF page + 1 > PageCap THEN all
      ELSE listAllRepoArtifactsByName(artifacts, name, page + 1, all)

\* the comparator ordering the artifacts by the timestamp they hold
CreatedAtLeq_byContent(a, b) == StrLeq(a.content, b.content)

\* a.created_at.localeCompare(b.created_at) <= 0; created_at strings have one
\* shape (digits at the same places), where collation order is code unit order
CreatedAtLeq(a, b) == StrLeq(a.created_at, b.created_at)

\* x put behind every element that does not sort after it (a stable sort)
InsertSorted(sorted, x) ==
  LET k == Cardinality({ i \in 1..Len(sorted) : CreatedAtLeq(sorted[i], x) })
  IN  SubSeq(sorted, 1, k) \o << x >> \o SubSeq(sorted, k + 1, Len(sorted))

\* Array.prototype.sort by created_at, ascending and stable
RECURSIVE sortByCreatedAt(_)
sortByCreatedAt(s) ==
  IF s = << >> THEN << >>
  ELSE InsertSorted(sortByCreatedAt(SubSeq(s, 1, Len(s) - 1)), s[Len(s)])

\* fetchLatestRepoArtifact taking the first artifact of the sorted listing
fetchLatestRepoArtifact_oldest(artifacts) ==
  IF Len(artifacts) = 0 THEN << >>
  ELSE LET viable == SelectSeq(artifacts, LAMBDA a : ~a.expired)
       IN  IF Len(viable) = 0 THEN << >>
           ELSE << sortByCreatedAt(viable)[1] >>

\* fetchLatestRepoArtifact without its filter on expired
fetchLatestRepoArtifact_keepsExpired(artifacts) ==
  IF Len(artifacts) = 0 THEN << >>
  ELSE LET sorted == sortByCreatedAt(artifacts)
       IN  << sorted[Len(sorted)] >>

\* fetchLatestRepoArtifact without its sort: the last artifact listed
fetchLatestRepoArtifact_unsorted(artifacts) ==
  IF Len(artifacts) = 0 THEN << >>
  ELSE LET viable == SelectSeq(artifacts, LAMBDA a : ~a.expired)
       IN  IF Len(viable) = 0 THEN << >>
           ELSE << viable[Len(viable)] >>

\* the artifact fetchLatestRepoArtifact chooses from a listing: << >> is null
fetchLatestRepoArtifact(artifacts) ==
  IF Len(artifacts) = 0 THEN << >>
  ELSE LET viable == SelectSeq(artifacts, LAMBDA a : ~a.expired)
       IN  IF Len(viable) = 0 THEN << >>
           ELSE LET sorted == sortByCreatedAt(viable)
                IN  << sorted[Len(sorted)] >>

\* the lookup going ahead whether a token is set or not
hasToken_ignored(r, env) == TRUE

\* process.env['GITHUB_TOKEN'] || process.env['ACTIONS_RUNTIME_TOKEN'];
\* revision 2 reads process.env.GITHUB_TOKEN alone
hasToken(r, env) ==
  IF r = 2 THEN env.GITHUB_TOKEN
  ELSE env.GITHUB_TOKEN \/ env.ACTIONS_RUNTIME_TOKEN

\* extractTimestampFromZip swallowing the error of a corrupt archive
extractTimestampFromZip_silent(a) ==
  IF a.kind \in { "corrupt", "nofile" } THEN [value |-> Null, warnings |-> << >>]
  ELSE [value |-> Trim(a.content), warnings |-> << >>]

\* revisions 1 and 3, extractTimestampFromZip: the value and the warnings
extractTimestampFromZip(a) ==
  IF a.kind = "corrupt"
    THEN [value |-> Null, warnings |-> << Msg("Failed to extract zip") >>]
  ELSE IF a.kind = "nofile" THEN [value |-> Null, warnings |-> << >>]
  ELSE [value |-> Trim(a.content), warnings |-> << >>]

\* revision 2, downloadTimestamp after downloadArtifact: fs.stat throws on a
\* missing file (caught by downloadTimestamp), fs.readFile returns the content
readTimestampFile(a) ==
  IF a.kind = "file" THEN [value |-> a.content, warnings |-> << >>]
  ELSE [value |-> Null,
        warnings |-> << Msg("Repo-level artifact lookup failed") >>]

\* the extraction taking the file of the download whatever its name
extractDownloaded_anyFileName(r, a) ==
  IF a.kind = "nofile" THEN [value |-> Trim(a.content), warnings |-> << >>]
  ELSE IF r = 2 THEN readTimestampFile(a)
  ELSE extractTimestampFromZip(a)

\* what downloadTimestamp returns once the download of a has succeeded
extractDownloaded(r, a) ==
  IF r = 2 THEN readTimestampFile(a) ELSE extractTimestampFromZip(a)

-----------------------------------------------------------------------------
(* The content extractor over both payload shapes *)

\* a file that may be there: the plain file of a download, the entry of an archive
NoFile == [exists |-> FALSE, content |-> << >>]
FileWith(content) == [exists |-> TRUE, content |-> content]

\* a download: the plain file last-run.txt at downloadPath, whether
\* artifactFilename names an archive, and that archive ("missing" when no such
\* file is at downloadPath) with its entry last-run.txt
Payload(file, indicated, kind, entry) ==
  [file |-> file, artifactFilename |-> indicated,
   archive |-> [kind |-> kind, entry |-> entry]]

NoPayload == Payload(NoFile, FALSE, "none", NoFile)

\* the entry last-run.txt of the archive, trimmed; a corrupt archive is caught
\* and warned about
extractFromZip(archive) ==
  IF archive.kind = "corrupt"
    THEN [value |-> Null, warnings |-> << Msg("Failed to extract zip") >>]
  ELSE IF archive.kind = "zip" /\ archive.entry.exists
    THEN [value |-> Trim(archive.entry.content), warnings |-> << >>]
  ELSE [value |-> Null, warnings |-> << >>]

\* the extractor looking into the archive first
extractArtifactContent_archiveFirst(download) ==
  IF download.artifactFilename /\ download.archive.kind # "missing"
    THEN extractFromZip(download.archive)
  ELSE IF download.file.exists
    THEN [value |-> Trim(download.file.content), warnings |-> << >>]
  ELSE [value |-> Null, warnings |-> << >>]

\* the plain file if it is there, otherwise the entry of the indicated
\* archive, otherwise none
extractArtifactContent(download) ==
  IF download.file.exists
    THEN [value |-> Trim(download.file.content), warnings |-> << >>]
  ELSE IF download.artifactFilename
    THEN extractFromZip(download.archive)
  ELSE [value |-> Null, warnings |-> << >>]

-----------------------------------------------------------------------------
(* listAllRepoArtifactsByName, one remote call at a time *)

\* the loop's locals: page, the list calls made, the matches pushed, the
\* length of the page last received (-1 before the first), and whether the
\* loop runs, has left ("returned") or was never entered ("idle")
PagingAt(pc, page, calls, matches, got) ==
  [pc |-> pc, page |-> page, calls |-> calls, matches |-> matches, got |-> got]

NoPaging == PagingAt("idle", 1, 0, 0, -1)

\* what one listArtifactsForRepo({ per_page, page }) may answer: the length of
\* resp.data.artifacts (a page short, full, or longer than asked for) and how
\* many of its artifacts carry the name
PageResponses ==
  { r \in [size : { 0, 1, PerPage - 1, PerPage, PerPage + 1 }, named : 0..1] :
      r.named <= r.size }

-----------------------------------------------------------------------------
(* setLastRun: the monotonic regeneration loop *)

\* The clock during one call of setLastRun: read number i (0 for the first
\* new Date()) returns reads.first before read number reads.at, reads.later
\* from then on.
ReadAt(reads, i) == IF i < reads.at THEN reads.first ELSE reads.later

\* setLastRun storing an empty value when there is no previous one
setLastRunNow_emptyWithoutPrevious(previous, reads) ==
  IF Truthy(previous)
    THEN LET isoFirst == toISOString(reads.first)
             isoLater == toISOString(reads.later)
             leqFirst == StrLeq(isoFirst, previous)
             leqLater == StrLeq(isoLater, previous)
             nowLeqPrevious(i) == IF i < reads.at THEN leqFirst ELSE leqLater
             greater == { i \in 1..SafeguardCap : ~nowLeqPrevious(i) }
             n == IF ~nowLeqPrevious(0) THEN 0
                  ELSE IF greater = {} THEN SafeguardCap
                  ELSE CHOOSE i \in greater : \A j \in greater : i <= j
         IN  [now |-> toISOString(ReadAt(reads, n)), safeguard |-> n,
              clock |-> ReadAt(reads, n)]
  ELSE [now |-> << >>, safeguard |-> 0, clock |-> ReadAt(reads, 0)]

\* let now = new Date().toISOString();
\* if (previous) { while (now <= previous && safeguard < 1000) { now = ...; safeguard++ } }
\* The loop leaves with the first regeneration that is greater than previous,
\* or with the cap reached: the number of regenerations, the value, the clock.
setLastRunNow(previous, reads) ==
  LET isoFirst == toISOString(reads.first)
      isoLater == toISOString(reads.later)
      leqFirst == StrLeq(isoFirst, previous)
      leqLater == StrLeq(isoLater, previous)
      \* now <= previous, for the now of read number i
      nowLeqPrevious(i) == IF i < reads.at THEN leqFirst ELSE leqLater
  IN  IF ~(Truthy(previous) /\ nowLeqPrevious(0))
        THEN [now |-> toISOString(ReadAt(reads, 0)), safeguard |-> 0,
              clock |-> ReadAt(reads, 0)]
      ELSE LET greater == { i \in 1..SafeguardCap : ~nowLeqPrevious(i) }
               n == IF greater = {} THEN SafeguardCap
                    ELSE CHOOSE i \in greater : \A j \in greater : i <= j
           IN  [now |-> toISOString(ReadAt(reads, n)), safeguard |-> n,
                clock |-> ReadAt(reads, n)]

-----------------------------------------------------------------------------
(* Inputs of the model *)

Revs == { 1, 2, 3 }

Procs == { 1, 2 }

T0 ==
  << "2", "0", "2", "5", "-", "0", "1", "-", "0", "1", "T",
     "0", "0", ":", "0", "0", ":", "0", "0", ".", "0", "0", "0", "Z" >>

\* the instant of the first clock read, as a stored value
TSame == toISOString(StartMs)

\* a stored value without fractional seconds
TNoFrac == createdAtOf(1000)

TFuture ==
  << "2", "0", "3", "0", "-", "0", "1", "-", "0", "1", "T",
     "0", "0", ":", "0", "0", ":", "0", "0", ".", "0", "0", "0", "Z" >>

NotATimestamp ==
  << "n", "o", "t", "-", "a", "-", "t", "i", "m", "e", "s", "t", "a", "m", "p" >>

BadMonth ==
  << "2", "0", "2", "5", "-", "1", "3", "-", "0", "1", "T",
     "0", "0", ":", "0", "0", ":", "0", "0", "Z" >>

\* a stored value of white space only
Blank == << " ", "\n" >>

\* stored values the pattern rejects: no Z, a fraction without digits, and the
\* string of the validator's test
NoZ ==
  << "2", "0", "2", "5", "-", "0", "1", "-", "0", "1", "T", "0", "0", ":",
     "0", "0", ":", "0", "0" >>

EmptyFraction ==
  << "2", "0", "2", "5", "-", "0", "1", "-", "0", "1", "T", "0", "0", ":",
     "0", "0", ":", "0", "0", ".", "Z" >>

Slashes ==
  << "2", "0", "2", "5", "/", "0", "9", "/", "2", "0", " ", "1", "2", ":",
     "0", "0", ":", "0", "0", "Z" >>

\* stored values with one fraction digit, with nine, and of a leap day
OneDigitFraction ==
  << "2", "0", "2", "5", "-", "0", "1", "-", "0", "1", "T", "0", "0", ":",
     "0", "0", ":", "0", "0", ".", "5", "Z" >>

LongFraction ==
  << "2", "0", "2", "5", "-", "0", "1", "-", "0", "1", "T", "0", "0", ":",
     "0", "0", ":", "0", "0", ".", "1", "2", "3", "4", "5", "6", "7", "8",
     "9", "Z" >>

\* a stored value with a fourth fraction digit, half a millisecond after TSame
SubMillisecond ==
  SubSeq(toISOString(StartMs), 1, 23) \o << "5", "Z" >>

LeapDay ==
  << "2", "0", "2", "4", "-", "0", "2", "-", "2", "9", "T", "2", "3", ":",
     "5", "9", ":", "5", "9", "Z" >>

Contents ==
  { T0, TSame, TNoFrac, TFuture, NotATimestamp, BadMonth, T0 \o << "\n" >>, << >>,
    Blank, NoZ, EmptyFraction, Slashes, OneDigitFraction, LongFraction, LeapDay,
    SubMillisecond }

\* a non-expired artifact named last-run, created in second 0, holding content
Stored(content) ==
  Artifact(1, ARTIFACT_NAME, createdAtOf(0), FALSE, "file", content)

InitStores ==
  { << >> }
  \cup { << Stored(c) >> : c \in Contents }
  \cup { << Artifact(1, ARTIFACT_NAME, createdAtOf(0), FALSE, "nofile", T0) >>,
         << Artifact(1, ARTIFACT_NAME, createdAtOf(0), FALSE, "corrupt", << >>) >>,
         << Artifact(1, ARTIFACT_NAME, createdAtOf(0), TRUE, "file", T0) >>,
         << Artifact(1, ARTIFACT_NAME, createdAtOf(0), FALSE, "file", T0),
            Artifact(2, ARTIFACT_NAME, createdAtOf(1000), TRUE, "file", TFuture) >>,
         << Artifact(2, ARTIFACT_NAME, createdAtOf(1000), FALSE, "file", TSame),
            Artifact(1, ARTIFACT_NAME, createdAtOf(0), FALSE, "file", T0) >>,
         << Artifact(1, ARTIFACT_NAME, createdAtOf(0), FALSE, "file", T0),
            Artifact(2, ARTIFACT_NAME, createdAtOf(1000), FALSE, "file", TSame) >>,
         << Artifact(2, "other", createdAtOf(1000), FALSE, "file", TSame),
            Artifact(1, ARTIFACT_NAME, createdAtOf(0), FALSE, "file", T0) >> }

SeqStores == { << >>, << Stored(T0) >> }

\* the downloads the extractor is given
Payloads ==
  { Payload(f, i, a[1], a[2]) :
      f \in { NoFile } \cup { FileWith(c) : c \in Contents },
      i \in BOOLEAN,
      a \in { << "missing", NoFile >>, << "corrupt", NoFile >>, << "zip", NoFile >> }
             \cup { << "zip", FileWith(c) >> : c \in Contents } }

ModeInputs ==
  { M_get, M_set, M_get_and_set, M_getset, M_get_and_set_u,
    << "m", "y", "s", "t", "e", "r", "y" >>,
    << >>,
    << " ", "G", "E", "T", "-", "a", "n", "d", "-", "S", "e", "t", "\n" >> }

Envs ==
  { [GITHUB_TOKEN |-> TRUE, ACTIONS_RUNTIME_TOKEN |-> FALSE],
    [GITHUB_TOKEN |-> FALSE, ACTIONS_RUNTIME_TOKEN |-> TRUE],
    [GITHUB_TOKEN |-> FALSE, ACTIONS_RUNTIME_TOKEN |-> FALSE] }

\* the environment of a workflow step that passes GITHUB_TOKEN
GitHubToken == [GITHUB_TOKEN |-> TRUE, ACTIONS_RUNTIME_TOKEN |-> FALSE]

WithToken == { GitHubToken }

TokenOrNone == { GitHubToken, [GITHUB_TOKEN |-> FALSE, ACTIONS_RUNTIME_TOKEN |-> FALSE] }

\* fail-if-missing left at its default
DefaultFlag == { FALSE }

\* the mode inputs of the slimmer specifications
GetAndSetMode == { M_get_and_set }
GetMode == { M_get }
StoreOrGetModes == { M_get, M_set, M_get_and_set }
AnyModeInputs == StoreOrGetModes \cup { << "m", "y", "s", "t", "e", "r", "y" >> }

\* mode inputs written in several cases and with white space around them, and
\* inputs of white space only
SpelledModeInputs ==
  { M_get, << " ", "G", "e", "T", "\n" >>,
    << >>, << " ", "\n" >>,
    M_set, << "S", "E", "T", " " >>,
    M_get_and_set,
    << " ", "G", "E", "T", "-", "a", "n", "d", "-", "S", "e", "t", "\n" >>,
    << " ", "m", "y", "s", "t", "e", "r", "y" >> }

\* the stores of the specification with fairness: empty, or one artifact
\* holding a timestamp of the past, one of the future, or a corrupt archive
TermStores ==
  { << >>, << Stored(T0) >>, << Stored(TFuture) >>,
    << Artifact(1, ARTIFACT_NAME, createdAtOf(0), FALSE, "corrupt", << >>) >> }

\* the messages of the errors uploadArtifact may throw (an Error may carry none)
UploadErrors == { "boom-upload", "" }

\* how often a remote call fails before it would succeed: 1..MaxFails, where
\* more than Retries is a call that fails on every attempt of the policy
FailPlans == 1..MaxFails

\* the clocks setLastRun may see: the first read, the later value, and the
\* number of the read from which the later value shows
ClockReads(from) ==
  { [first |-> f, later |-> f, at |-> 1] : f \in from..MaxClock }
  \cup { r \in [first : from..MaxClock, later : from..MaxClock,
                  at : { 1, SafeguardCap, SafeguardCap + 1 }] :
            r.first < r.later }

-----------------------------------------------------------------------------
(* State *)

VARIABLES
  rev,      \* the deployed revision of src/src/index.ts
  store,    \* the repository's artifacts, in the order a listing returns them
  clock,    \* the last clock value read, in ms
  budget,   \* invocations that may still start
  history,  \* the successful uploads, oldest first
  inv,      \* per process: the invocation it runs
  payload,  \* the download handed to extractArtifactContent
  extracted, \* what extractArtifactContent returned, << >> before the call
  paging    \* the loop of listAllRepoArtifactsByName, page by page

vars == << rev, store, clock, budget, history, inv, payload, extracted, paging >>

NoOperations == [get |-> FALSE, set |-> FALSE]

NoEnv == [GITHUB_TOKEN |-> FALSE, ACTIONS_RUNTIME_TOKEN |-> FALSE]

\* the local validation of downloadTimestampWithValidation before it is assigned
NoValidation == [ok |-> FALSE, reason |-> "unset"]

\* an invocation before run(): pc is its place in the code, trace the calls it
\* has made on the remote store and on core, in order; listFails and
\* uploadFails are the failures the remote call it met has in store before it
\* would succeed, error the message of the error run() has caught
FreshInv(pc) ==
  [pc |-> pc, input |-> << >>, failIfMissing |-> FALSE, env |-> NoEnv,
   mode |-> << >>, operations |-> NoOperations,
   latest |-> << >>, raw |-> Null, validation |-> NoValidation,
   retrieved |-> Null,
   now |-> Null, safeguard |-> 0, trace |-> << >>,
   listFails |-> 0, uploadFails |-> 0, error |-> Null]

Event(ev, val) == [ev |-> ev, val |-> val]

\* one invocation over a store that is empty or holds one artifact: a
\* timestamp of the past, one of the future, a corrupt archive
InitTerm ==
  /\ rev \in Revs
  /\ store \in TermStores
  /\ clock = StartMs
  /\ budget = 1
  /\ history = << >>
  /\ inv = [p \in Procs |-> FreshInv(IF p = 1 THEN "idle" ELSE "off")]
  /\ payload = NoPayload
  /\ extracted = << >>
  /\ paging = NoPaging

\* two jobs of the workflow about to run the action at the same time
InitConc ==
  /\ rev \in Revs
  /\ store \in SeqStores
  /\ clock = StartMs
  /\ budget = Cardinality(Procs)
  /\ history = << >>
  /\ inv = [p \in Procs |-> FreshInv("idle")]
  /\ payload = NoPayload
  /\ extracted = << >>
  /\ paging = NoPaging

\* two jobs about to run the action at the same time over a stored timestamp,
\* and one more run of the action to come
InitRace ==
  /\ rev \in Revs
  /\ store = << Stored(T0) >>
  /\ clock = StartMs
  /\ budget = Cardinality(Procs) + 1
  /\ history = << >>
  /\ inv = [p \in Procs |-> FreshInv("idle")]
  /\ payload = NoPayload
  /\ extracted = << >>
  /\ paging = NoPaging

\* listAllRepoArtifactsByName about to enter its loop, with a token
InitPaging ==
  /\ rev = 3
  /\ store = << >>
  /\ clock = StartMs
  /\ budget = 0
  /\ history = << >>
  /\ inv = [p \in Procs |-> FreshInv("off")]
  /\ payload = NoPayload
  /\ extracted = << >>
  /\ paging = PagingAt("loop", 1, 0, 0, -1)

\* no invocation runs: the state around a call of the extractor on its own
InitExtract ==
  /\ rev \in Revs
  /\ store = << >>
  /\ clock = StartMs
  /\ budget = 0
  /\ history = << >>
  /\ inv = [p \in Procs |-> FreshInv("off")]
  /\ payload \in Payloads
  /\ extracted = << >>
  /\ paging = NoPaging

Init ==
  /\ rev \in Revs
  /\ store \in InitStores
  /\ clock = StartMs
  /\ budget = 1
  /\ history = << >>
  /\ inv = [p \in Procs |-> FreshInv(IF p = 1 THEN "idle" ELSE "off")]
  /\ payload = NoPayload
  /\ extracted = << >>
  /\ paging = NoPaging

InitSeq ==
  /\ rev \in Revs
  /\ store \in SeqStores
  /\ clock = StartMs
  /\ budget = MaxRuns
  /\ history = << >>
  /\ inv = [p \in Procs |-> FreshInv(IF p = 1 THEN "idle" ELSE "off")]
  /\ payload = NoPayload
  /\ extracted = << >>
  /\ paging = NoPaging

-----------------------------------------------------------------------------
(* Actions: the steps of run(), one per stretch between remote calls *)

\* run: collectInputs, then the first operation the mode asks for
\* run storing first whenever the mode stores
runWith_storesFirst(p, inputs, flags, envs) ==
  /\ inv[p].pc \in { "idle", "done" }
  /\ budget > 0
  /\ \E input \in inputs, failIfMissing \in flags, env \in envs :
       LET c == collectInputs(input, failIfMissing)
       IN  inv' = [inv EXCEPT ![p] =
                     [FreshInv(IF c.operations.set THEN "setLastRun"
                               ELSE IF c.operations.get THEN "getLastRun"
                               ELSE "done")
                        EXCEPT !.input = input,
                               !.failIfMissing = c.failIfMissing,
                               !.env = env,
                               !.mode = c.mode,
                               !.operations = c.operations]]
  /\ budget' = budget - 1
  /\ UNCHANGED << paging, payload, extracted, rev, store, clock, history >>

\* run: collectInputs, then the first operation the mode asks for, with the
\* inputs drawn from the given sets
runWith(p, inputs, flags, envs) ==
  /\ inv[p].pc \in { "idle", "done" }
  /\ budget > 0
  /\ \E input \in inputs, failIfMissing \in flags, env \in envs :
       LET c == collectInputs(input, failIfMissing)
       IN  inv' = [inv EXCEPT ![p] =
                     [FreshInv(IF c.operations.get THEN "getLastRun"
                               ELSE IF c.operations.set THEN "setLastRun"
                               ELSE "done")
                        EXCEPT !.input = input,
                               !.failIfMissing = c.failIfMissing,
                               !.env = env,
                               !.mode = c.mode,
                               !.operations = c.operations]]
  /\ budget' = budget - 1
  /\ UNCHANGED << paging, payload, extracted, rev, store, clock, history >>

\* run with any mode input, flag and environment
run(p) == runWith(p, ModeInputs, BOOLEAN, Envs)

\* run as the workflow step of the README's combined-mode example: mode
\* get-and-set, fail-if-missing left at its default, GITHUB_TOKEN set
runGetAndSet(p) == runWith(p, GetAndSetMode, DefaultFlag, WithToken)

\* run as a step of a workflow that stores in one job run and reads in a later
\* one: the modes get, set and get-and-set, with GITHUB_TOKEN or without a token
runStoreOrGet(p) == runWith(p, StoreOrGetModes, BOOLEAN, TokenOrNone)

\* run in mode get-and-set, the last run to come in mode get
runRace(p) ==
  \/ budget > 1 /\ runGetAndSet(p)
  \/ /\ budget = 1
     /\ runWith(p, GetMode, DefaultFlag, WithToken)

\* run in each of the three modes and in an unknown one, with either
\* fail-if-missing, with GITHUB_TOKEN or without a token
runAnyMode(p) == runWith(p, AnyModeInputs, BOOLEAN, TokenOrNone)

\* run with the mode spelled in any of these ways, from a workflow step that
\* passes GITHUB_TOKEN
runSpelled(p) == runWith(p, SpelledModeInputs, BOOLEAN, WithToken)

\* the listing without a filter on the name
listing_anyName(r, artifacts) == PageOf(artifacts, 1)

\* the listing of the revision
listing(r, artifacts) ==
  IF r = 3 THEN listAllRepoArtifactsByName(artifacts, ARTIFACT_NAME, 1, << >>)
  ELSE listRepoArtifactsByName(artifacts, ARTIFACT_NAME)

\* downloadTimestamp, first half: fetchLatestRepoArtifact lists the artifacts
\* and chooses one; an error thrown by the listing is caught by downloadTimestamp
fetchLatest(p) ==
  /\ inv[p].pc = "getLastRun"
  /\ \/ /\ ~hasToken(rev, inv[p].env)
        /\ inv' = [inv EXCEPT ![p].pc = "validate", ![p].raw = Null]
     \/ /\ hasToken(rev, inv[p].env)
        /\ LET latest == fetchLatestRepoArtifact(listing(rev, store))
           IN  inv' = [inv EXCEPT
                         ![p].pc = IF latest = << >> THEN "validate" ELSE "download",
                         ![p].latest = latest,
                         ![p].raw = Null,
                         ![p].trace = Append(@, Event("list", Msg("ok")))]
     \/ /\ hasToken(rev, inv[p].env)
        /\ \E k \in FailPlans :
             inv' = [inv EXCEPT
                       ![p].pc = "validate",
                       ![p].raw = Null,
                       ![p].listFails = k,
                       ![p].trace = @ \o << Event("list", Msg("throw")),
                                            Event("warning", Msg("Repo-level artifact lookup failed")) >>]
  /\ UNCHANGED << paging, payload, extracted, rev, store, clock, budget, history >>

\* downloadTimestamp letting the error of the download reach run()'s catch
downloadTimestamp_rethrows(p) ==
  /\ inv[p].pc = "download"
  /\ LET a == inv[p].latest[1]
     IN  \/ /\ ~(rev = 2 /\ a.kind = "corrupt")
            /\ LET got == IF hasToken(rev, inv[p].env) THEN extractDownloaded(rev, a)
                          ELSE [value |-> Null, warnings |-> << >>]
               IN  inv' = [inv EXCEPT
                             ![p].pc = "validate",
                             ![p].raw = got.value,
                             ![p].trace =
                               @ \o (IF hasToken(rev, inv[p].env)
                                       THEN << Event("download", Msg("ok")) >>
                                       ELSE << >>)
                                 \o [i \in 1..Len(got.warnings) |->
                                       Event("warning", got.warnings[i])]]
         \/ /\ hasToken(rev, inv[p].env)
            /\ inv' = [inv EXCEPT
                         ![p].pc = "done",
                         ![p].raw = Null,
                         ![p].error = Msg("download failed"),
                         ![p].trace = @ \o << Event("download", Msg("throw")),
                                              Event("setFailed", Msg("download failed")) >>]
  /\ UNCHANGED << paging, payload, extracted, rev, store, clock, budget, history >>

\* downloadTimestamp, second half: downloadArtifactArchive and the extraction
downloadTimestamp(p) ==
  /\ inv[p].pc = "download"
  /\ LET a == inv[p].latest[1]
     IN  \/ /\ ~(rev = 2 /\ a.kind = "corrupt")
            /\ LET got == IF hasToken(rev, inv[p].env) THEN extractDownloaded(rev, a)
                          ELSE [value |-> Null, warnings |-> << >>]
               IN  inv' = [inv EXCEPT
                             ![p].pc = "validate",
                             ![p].raw = got.value,
                             ![p].trace =
                               @ \o (IF hasToken(rev, inv[p].env)
                                       THEN << Event("download", Msg("ok")) >>
                                       ELSE << >>)
                                 \o [i \in 1..Len(got.warnings) |->
                                       Event("warning", got.warnings[i])]]
         \/ /\ hasToken(rev, inv[p].env)
            /\ inv' = [inv EXCEPT
                         ![p].pc = "validate",
                         ![p].raw = Null,
                         ![p].trace = @ \o << Event("download", Msg("throw")),
                                              Event("warning", Msg("Repo-level artifact lookup failed")) >>]
  /\ UNCHANGED << paging, payload, extracted, rev, store, clock, budget, history >>

\* downloadTimestampWithValidation returning the rejected value after its warning
downloadTimestampWithValidation_keepsRaw(raw) ==
  LET validation == validateIsoTimestamp(raw)
  IN  [value |-> raw,
       warnings |->
         IF validation.ok \/ validation.reason = "empty" THEN << >>
         ELSE << Msg("Invalid timestamp format in artifact: '") \o raw \o Msg("'") >>]

\* downloadTimestampWithValidation rejecting a value without a warning
downloadTimestampWithValidation_noWarning(raw) ==
  LET validation == validateIsoTimestamp(raw)
  IN  [value |-> IF validation.ok THEN raw ELSE Null, warnings |-> << >>]

\* downloadTimestampWithValidation with the one message for both rejections
downloadTimestampWithValidation_oneMessage(raw) ==
  LET validation == validateIsoTimestamp(raw)
  IN  IF ~validation.ok
        THEN [value |-> Null,
              warnings |->
                IF validation.reason \in { "pattern", "parse" }
                  THEN << Msg("Invalid timestamp format in artifact: '") \o raw \o Msg("'") >>
                ELSE << >>]
      ELSE [value |-> raw, warnings |-> << >>]

\* downloadTimestampWithValidation, once downloadTimestamp has returned raw:
\* the value it returns and the warnings it logs
downloadTimestampWithValidation(raw) ==
  LET validation == validateIsoTimestamp(raw)
  IN  IF ~validation.ok
        THEN [value |-> Null,
              warnings |->
                IF validation.reason = "pattern"
                  THEN << Msg("Invalid timestamp format in artifact: '") \o raw \o Msg("'") >>
                ELSE IF validation.reason = "parse"
                  THEN << Msg("Timestamp parse failed: '") \o raw \o Msg("'") >>
                ELSE << >>]
      ELSE [value |-> raw, warnings |-> << >>]

\* getLastRun without its core.setOutput
getLastRunReport_noOutput(retrieved, failIfMissing) ==
  IF Truthy(retrieved) THEN << >>
  ELSE IF failIfMissing THEN << Event("setFailed", MissingMsg) >>
  ELSE << Event("warning", MissingMsg) >>

\* getLastRun warning only, whatever failIfMissing says
getLastRunReport_warnsOnly(retrieved, failIfMissing) ==
  IF Truthy(retrieved) THEN << Event("setOutput", retrieved) >>
  ELSE << Event("warning", MissingMsg) >>

\* what getLastRun reports for the value downloadTimestampWithValidation returns
getLastRunReport(retrieved, failIfMissing) ==
  IF Truthy(retrieved) THEN << Event("setOutput", retrieved) >>
  ELSE IF failIfMissing THEN << Event("setFailed", MissingMsg) >>
  ELSE << Event("warning", MissingMsg) >>

\* getLastRun ending the invocation where it marks it failed
getLastRun_abortsWhenMissing(p) ==
  /\ inv[p].pc = "validate"
  /\ LET got == downloadTimestampWithValidation(inv[p].raw)
     IN  inv' = [inv EXCEPT
                   ![p].pc = IF inv[p].operations.set
                                /\ ~(inv[p].failIfMissing /\ ~Truthy(got.value))
                               THEN "setLastRun" ELSE "done",
                   ![p].validation = validateIsoTimestamp(inv[p].raw),
                   ![p].retrieved = IF Truthy(got.value) THEN got.value ELSE Null,
                   ![p].trace = @ \o [i \in 1..Len(got.warnings) |->
                                        Event("warning", got.warnings[i])]
                                  \o getLastRunReport(got.value, inv[p].failIfMissing)]
  /\ UNCHANGED << paging, payload, extracted, rev, store, clock, budget, history >>

\* getLastRun after the download: validation, then output, failure or warning
getLastRun(p) ==
  /\ inv[p].pc = "validate"
  /\ LET got == downloadTimestampWithValidation(inv[p].raw)
     IN  inv' = [inv EXCEPT
                   ![p].pc = IF inv[p].operations.set THEN "setLastRun" ELSE "done",
                   ![p].validation = validateIsoTimestamp(inv[p].raw),
                   ![p].retrieved = IF Truthy(got.value) THEN got.value ELSE Null,
                   ![p].trace = @ \o [i \in 1..Len(got.warnings) |->
                                        Event("warning", got.warnings[i])]
                                  \o getLastRunReport(got.value, inv[p].failIfMissing)]
  /\ UNCHANGED << paging, payload, extracted, rev, store, clock, budget, history >>

\* setLastRun whose loop has no cap: it does not leave the loop while the
\* clock does not pass previous
setLastRun_noCap(p) ==
  /\ inv[p].pc = "setLastRun"
  /\ \E reads \in ClockReads(clock) :
       LET r == setLastRunNow(inv[p].retrieved, reads)
       IN  /\ ~(Truthy(inv[p].retrieved) /\ StrLeq(r.now, inv[p].retrieved))
           /\ inv' = [inv EXCEPT ![p].pc = "upload",
                                 ![p].now = r.now,
                                 ![p].safeguard = r.safeguard]
           /\ clock' = r.clock
  /\ UNCHANGED << paging, payload, extracted, rev, store, budget, history >>

\* setLastRun up to the call of uploadTimestamp
setLastRun(p) ==
  /\ inv[p].pc = "setLastRun"
  /\ \E reads \in ClockReads(clock) :
       LET r == setLastRunNow(inv[p].retrieved, reads)
       IN  /\ inv' = [inv EXCEPT ![p].pc = "upload",
                                 ![p].now = r.now,
                                 ![p].safeguard = r.safeguard]
           /\ clock' = r.clock
  /\ UNCHANGED << paging, payload, extracted, rev, store, budget, history >>

\* the message run() hands to core.setFailed: error.message || String(error)
failureMessage(message) == IF message # "" THEN Msg(message) ELSE Msg("Error")

\* uploadTimestamp writing the timestamp to a file of another name
uploadTimestamp_otherFileName(p) ==
  /\ inv[p].pc = "upload"
  /\ \/ \E at \in clock..MaxClock, front \in BOOLEAN :
          LET a == Artifact(Len(store) + 1, ARTIFACT_NAME, createdAtOf(at),
                            FALSE, "nofile", inv[p].now)
          IN  /\ store' = IF front THEN << a >> \o store ELSE Append(store, a)
              /\ clock' = at
              /\ history' = Append(history,
                                   [operations |-> inv[p].operations,
                                    failIfMissing |-> inv[p].failIfMissing,
                                    retrieved |-> inv[p].retrieved,
                                    uploaded |-> inv[p].now])
              /\ inv' = [inv EXCEPT
                           ![p].pc = "done",
                           ![p].trace = Append(@, Event("upload", Msg("ok")))]
     \/ \E message \in UploadErrors, k \in FailPlans :
          /\ inv' = [inv EXCEPT
                       ![p].pc = "done",
                       ![p].uploadFails = k,
                       ![p].error = Msg(message),
                       ![p].trace = @ \o << Event("upload", Msg("throw")),
                                            Event("setFailed", failureMessage(message)) >>]
          /\ UNCHANGED << store, clock, history >>
  /\ UNCHANGED << paging, payload, extracted, rev, budget >>

\* uploadTimestamp with its error caught and logged as a warning
uploadTimestamp_warnsOnFailure(p) ==
  /\ inv[p].pc = "upload"
  /\ \/ \E at \in clock..MaxClock, front \in BOOLEAN :
          LET a == Artifact(Len(store) + 1, ARTIFACT_NAME, createdAtOf(at),
                            FALSE, "file", inv[p].now)
          IN  /\ store' = IF front THEN << a >> \o store ELSE Append(store, a)
              /\ clock' = at
              /\ history' = Append(history,
                                   [operations |-> inv[p].operations,
                                    failIfMissing |-> inv[p].failIfMissing,
                                    retrieved |-> inv[p].retrieved,
                                    uploaded |-> inv[p].now])
              /\ inv' = [inv EXCEPT
                           ![p].pc = "done",
                           ![p].trace = Append(@, Event("upload", Msg("ok")))]
     \/ \E message \in UploadErrors, k \in FailPlans :
          /\ inv' = [inv EXCEPT
                       ![p].pc = "done",
                       ![p].uploadFails = k,
                       ![p].trace = @ \o << Event("upload", Msg("throw")),
                                            Event("warning", failureMessage(message)) >>]
          /\ UNCHANGED << store, clock, history >>
  /\ UNCHANGED << paging, payload, extracted, rev, budget >>

\* uploadTimestamp: the artifact is created, or the error reaches run()'s catch
uploadTimestamp(p) ==
  /\ inv[p].pc = "upload"
  /\ \/ \E at \in clock..MaxClock, front \in BOOLEAN :
          LET a == Artifact(Len(store) + 1, ARTIFACT_NAME, createdAtOf(at),
                            FALSE, "file", inv[p].now)
          IN  /\ store' = IF front THEN << a >> \o store ELSE Append(store, a)
              /\ clock' = at
              /\ history' = Append(history,
                                   [operations |-> inv[p].operations,
                                    failIfMissing |-> inv[p].failIfMissing,
                                    retrieved |-> inv[p].retrieved,
                                    uploaded |-> inv[p].now])
              /\ inv' = [inv EXCEPT
                           ![p].pc = "done",
                           ![p].trace = Append(@, Event("upload", Msg("ok")))]
     \/ \E message \in UploadErrors, k \in FailPlans :
          /\ inv' = [inv EXCEPT
                       ![p].pc = "done",
                       ![p].uploadFails = k,
                       ![p].error = Msg(message),
                       ![p].trace = @ \o << Event("upload", Msg("throw")),
                                            Event("setFailed", failureMessage(message)) >>]
          /\ UNCHANGED << store, clock, history >>
  /\ UNCHANGED << paging, payload, extracted, rev, budget >>

Next ==
  \E p \in Procs :
    \/ run(p)
    \/ fetchLatest(p)
    \/ downloadTimestamp(p)
    \/ getLastRun(p)
    \/ setLastRun(p)
    \/ uploadTimestamp(p)

\* one turn of the loop, without the page cap
listPage_noCap ==
  /\ paging.pc = "loop"
  /\ paging.calls <= PageCap
  /\ \E resp \in PageResponses :
       paging' = IF resp.size < PerPage
                   THEN PagingAt("returned", paging.page, paging.calls + 1,
                                 paging.matches + resp.named, resp.size)
                 ELSE PagingAt("loop", paging.page + 1, paging.calls + 1,
                               paging.matches + resp.named, resp.size)
  /\ UNCHANGED << payload, extracted, rev, store, clock, budget, history, inv >>

\* one turn of while (true): the call for the page, the matches pushed, the
\* break on a short page, page++, the break on the page cap
listPage ==
  /\ paging.pc = "loop"
  /\ \E resp \in PageResponses :
       paging' = IF resp.size < PerPage
                   THEN PagingAt("returned", paging.page, paging.calls + 1,
                                 paging.matches + resp.named, resp.size)
                 ELSE IF paging.page + 1 > PageCap
                   THEN PagingAt("returned", paging.page + 1, paging.calls + 1,
                                 paging.matches + resp.named, resp.size)
                 ELSE PagingAt("loop", paging.page + 1, paging.calls + 1,
                               paging.matches + resp.named, resp.size)
  /\ UNCHANGED << payload, extracted, rev, store, clock, budget, history, inv >>

\* one call of extractArtifactContent
extract ==
  /\ payload # NoPayload
  /\ extracted = << >>
  /\ extracted' = << extractArtifactContent(payload) >>
  /\ UNCHANGED << paging, payload, rev, store, clock, budget, history, inv >>

NextExtract == extract

NextPaging == listPage

\* the steps of concurrent get-and-set invocations, interleaved at their
\* remote calls
NextConc ==
  \E p \in Procs :
    \/ runGetAndSet(p)
    \/ fetchLatest(p)
    \/ downloadTimestamp(p)
    \/ getLastRun(p)
    \/ setLastRun(p)
    \/ uploadTimestamp(p)

\* the steps of invocations that store and read back
NextRoundTrip ==
  \E p \in Procs :
    \/ runStoreOrGet(p)
    \/ fetchLatest(p)
    \/ downloadTimestamp(p)
    \/ getLastRun(p)
    \/ setLastRun(p)
    \/ uploadTimestamp(p)

\* the steps of racing get-and-set invocations and of the get that reads
\* what they left
NextRace ==
  \E p \in Procs :
    \/ runRace(p)
    \/ fetchLatest(p)
    \/ downloadTimestamp(p)
    \/ getLastRun(p)
    \/ setLastRun(p)
    \/ uploadTimestamp(p)

\* the steps of one invocation in any mode
NextTerm ==
  \E p \in Procs :
    \/ runAnyMode(p)
    \/ fetchLatest(p)
    \/ downloadTimestamp(p)
    \/ getLastRun(p)
    \/ setLastRun(p)
    \/ uploadTimestamp(p)

\* the steps of one invocation whose mode is spelled in several ways
NextSpelled ==
  \E p \in Procs :
    \/ runSpelled(p)
    \/ fetchLatest(p)
    \/ downloadTimestamp(p)
    \/ getLastRun(p)
    \/ setLastRun(p)
    \/ uploadTimestamp(p)

\* one invocation
Spec == Init /\ [][Next]_vars

\* one invocation whose mode input is spelled in several ways
SpecSpelled == InitTerm /\ [][NextSpelled]_vars

\* one invocation each of whose remote calls returns or fails in the end, and
\* whose own steps between the calls are taken
FairSpec == InitTerm /\ [][NextTerm]_vars /\ WF_vars(NextTerm)

\* up to MaxRuns invocations, one after the other
SpecSeq == InitSeq /\ [][Next]_vars

\* up to MaxRuns storing and reading invocations, one after the other
SpecRoundTrip == InitSeq /\ [][NextRoundTrip]_vars

\* concurrent get-and-set invocations and a get invocation at any time after
\* they have started
SpecRace == InitRace /\ [][NextRace]_vars

\* concurrent get-and-set invocations, one per process
SpecConc == InitConc /\ [][NextConc]_vars

\* the paged listing alone, over every sequence of page responses
SpecPaging == InitPaging /\ [][NextPaging]_vars

\* the content extractor alone, on every download of Payloads
SpecExtract == InitExtract /\ [][NextExtract]_vars

-----------------------------------------------------------------------------
(* What an invocation has done, read from its trace *)

Positions(p, ev) == { i \in 1..Len(inv[p].trace) : inv[p].trace[i].ev = ev }

EventsOf(p, ev) == SelectSeq(inv[p].trace, LAMBDA e : e.ev = ev)

\* the values handed to core.setOutput('last-run', ...)
Outputs(p) == EventsOf(p, "setOutput")

\* core.setFailed was called: the invocation ends Failed
Failed(p) == EventsOf(p, "setFailed") # << >>

Started(p) == inv[p].pc \notin { "idle", "off" }

Done(p) == inv[p].pc = "done"

\* a remote call of this kind returned
Returned(p, call) == \E i \in Positions(p, call) : inv[p].trace[i].val = Msg("ok")

\* the modes that store, after normalization
StoringModes == { M_set, M_get_and_set, M_getset, M_get_and_set_u }

CombinedModes == { M_get_and_set, M_getset, M_get_and_set_u }

\* the value is one the clock can have produced
IsClockValue(v) == \E ms \in StartMs..MaxClock : v = toISOString(ms)

\* the non-expired last-run artifacts that no other one is newer than
NewestViable(artifacts) ==
  LET viable == { i \in 1..Len(artifacts) :
                    artifacts[i].name = ARTIFACT_NAME /\ ~artifacts[i].expired }
  IN  { artifacts[i] : i \in { k \in viable :
          \A j \in viable : StrLeq(artifacts[j].created_at, artifacts[k].created_at) } }

-----------------------------------------------------------------------------
(* Claims *)

\* C1: whenever setLastRun is called with a non-null previous timestamp, the
\* value it hands to the upload is strictly lexicographically greater than
\* previous, for every previous value.
C1_UploadedGreaterThanPrevious ==
  \A p \in Procs :
    (inv[p].pc \in { "upload", "done" } /\ inv[p].now # Null
       /\ Truthy(inv[p].retrieved))
      => StrLess(inv[p].retrieved, inv[p].now)

\* C2: over invocations in a combined mode that run one after the other and
\* each store successfully, where an invocation retrieved the value the one
\* before it uploaded, the uploaded values are strictly increasing.
C2_SequentialUploadsIncrease ==
  \A i \in 1..(Len(history) - 1) :
    (history[i].operations = [get |-> TRUE, set |-> TRUE]
       /\ history[i + 1].operations = [get |-> TRUE, set |-> TRUE]
       /\ history[i + 1].retrieved = history[i].uploaded)
      => StrLess(history[i].uploaded, history[i + 1].uploaded)

\* C3: in a combined mode the retrieved valid value is emitted as the one
\* last-run output before the upload is issued; the output is there when the
\* upload has succeeded and when it has failed, and the failure an upload error
\* causes is reported after the output.
C3_OutputBeforeUpload ==
  \A p \in Procs :
    (inv[p].mode \in CombinedModes /\ Truthy(inv[p].retrieved))
      => /\ Outputs(p) = << Event("setOutput", inv[p].retrieved) >>
         /\ inv[p].pc \in { "setLastRun", "upload", "done" }
         /\ \A i \in Positions(p, "setOutput") :
              /\ \A j \in Positions(p, "upload") : i < j
              /\ \A j \in Positions(p, "setFailed") : i < j
         /\ \A j \in Positions(p, "setFailed") :
              \E u \in Positions(p, "upload") :
                u < j /\ inv[p].trace[u].val = Msg("throw")

\* C3 witness: a combined-mode invocation has emitted the retrieved value and
\* then failed in its upload
C3_Witness ==
  \E p \in Procs :
    /\ inv[p].mode = M_get_and_set /\ Done(p) /\ Failed(p)
    /\ Outputs(p) = << Event("setOutput", T0) >>

\* C4: with failIfMissing true and no valid timestamp retrieved in a combined
\* mode, the invocation is marked failed with the fixed message, it does not
\* end before the upload was attempted, and it ends Failed when the upload
\* succeeded too.
C4_FailedButStillStores ==
  \A p \in Procs :
    (inv[p].mode \in CombinedModes /\ inv[p].failIfMissing
       /\ inv[p].pc \in { "setLastRun", "upload", "done" }
       /\ ~Truthy(inv[p].retrieved))
      => /\ \E i \in Positions(p, "setFailed") : inv[p].trace[i].val = MissingMsg
         /\ Failed(p)
         /\ Done(p) => Positions(p, "upload") # {}

\* C4 witness: such an invocation has ended Failed with its upload succeeded
C4_Witness ==
  \E p \in Procs :
    /\ inv[p].mode \in CombinedModes /\ inv[p].failIfMissing
    /\ ~Truthy(inv[p].retrieved)
    /\ Done(p) /\ Failed(p) /\ Returned(p, "upload")
    /\ \E i \in 1..Len(store) : store[i].content = inv[p].now

\* C5: in mode get, when the newest non-expired last-run artifact holds a valid
\* timestamp string, an emitted last-run output is exactly that string, and it
\* is emitted once the listing and the download have returned.
C5_GetEmitsStoredString ==
  \A p \in Procs :
    (inv[p].mode = M_get /\ Done(p))
      => \A a \in NewestViable(store) :
           (Cardinality(NewestViable(store)) = 1 /\ a.kind = "file"
              /\ validateIsoTimestamp(a.content).ok)
             => /\ \A i \in 1..Len(Outputs(p)) : Outputs(p)[i].val = a.content
                /\ (Returned(p, "list") /\ Returned(p, "download"))
                     => Outputs(p) = << Event("setOutput", a.content) >>

\* C5 witness: mode get has emitted the content of the newer of two artifacts
C5_Witness ==
  \E p \in Procs :
    /\ inv[p].mode = M_get /\ Done(p) /\ Len(store) = 2
    /\ Outputs(p) = << Event("setOutput", TSame) >>

\* C6: an invocation has emitted at most one last-run output, and has emitted
\* one only if it retrieved (the listing and the download returned) and the
\* emitted value passes validation; in mode set it has emitted none.
C6_OutputOnlyWhenRetrievedValid ==
  \A p \in Procs :
    /\ Len(Outputs(p)) <= 1
    /\ \A i \in Positions(p, "setOutput") :
         /\ validateIsoTimestamp(inv[p].trace[i].val).ok
         /\ \E l \in Positions(p, "list") :
              l < i /\ inv[p].trace[l].val = Msg("ok")
         /\ \E d \in Positions(p, "download") :
              d < i /\ inv[p].trace[d].val = Msg("ok")
    /\ inv[p].mode = M_set => Outputs(p) = << >>

\* C6 witness: an invocation has emitted an output
C6_Witness ==
  \E p \in Procs : Done(p) /\ Len(Outputs(p)) = 1 /\ ~inv[p].operations.set

\* a started invocation whose normalized mode is get or resolves to get
GetOnly(r) == r.pc \notin { "idle", "off" } /\ r.mode \notin StoringModes

\* C7: an invocation in mode get, or in a mode resolved to get, never reaches
\* the store step, issues no upload call, and none of its steps changes the
\* artifacts of the remote store.
C7_GetNeverUploads ==
  /\ [](\A p \in Procs :
          GetOnly(inv[p])
            => /\ inv[p].pc \notin { "setLastRun", "upload" }
               /\ Positions(p, "upload") = {}
               /\ inv[p].now = Null)
  /\ [][\A p \in Procs :
          (inv'[p] # inv[p] /\ GetOnly(inv'[p])) => store' = store]_vars

\* C7 witness: an invocation whose mode resolved to get has ended after a
\* warning, with artifacts in the store
C7_Witness ==
  \E p \in Procs :
    /\ GetOnly(inv[p]) /\ Done(p) /\ inv[p].mode # M_get
    /\ Positions(p, "warning") # {}
    /\ store # << >>

\* C8: in mode set the invocation issues no list and no download call, emits
\* no output, and has called the upload exactly once when it ends, with a
\* well-formed timestamp read from the clock.
C8_SetUploadsOnce ==
  \A p \in Procs :
    inv[p].mode = M_set
      => /\ Positions(p, "list") = {} /\ Positions(p, "download") = {}
         /\ Outputs(p) = << >>
         /\ inv[p].retrieved = Null
         /\ Done(p) => Cardinality(Positions(p, "upload")) = 1
         /\ inv[p].pc \in { "upload", "done" }
              => /\ validateIsoTimestamp(inv[p].now).ok
                 /\ IsClockValue(inv[p].now)
                 /\ inv[p].safeguard = 0

\* C8 witness: a set invocation has ended with its one upload stored
C8_Witness ==
  \E p \in Procs :
    /\ inv[p].mode = M_set /\ Done(p) /\ ~Failed(p)
    /\ Len(history) = 1 /\ history[1].uploaded = inv[p].now
    /\ \E i \in 1..Len(store) : store[i].content = inv[p].now

\* C9: an invocation whose mode is none of get, set, get-and-set, getset and
\* get_and_set runs the operations of mode get, which are all that run()
\* consults: it retrieves, never stores and issues no upload.
C9_UnknownModeIsGet ==
  \A p \in Procs :
    (Started(p) /\ inv[p].mode \notin (StoringModes \cup { M_get }))
      => /\ inv[p].operations = deriveOperations(M_get)
         /\ inv[p].operations = [get |-> TRUE, set |-> FALSE]
         /\ inv[p].pc \in { "getLastRun", "download", "validate", "done" }
         /\ Positions(p, "upload") = {}
         /\ inv[p].now = Null

\* C9 witness: an invocation in an unknown mode has ended with an output
C9_Witness ==
  \E p \in Procs :
    /\ Started(p) /\ inv[p].mode \notin (StoringModes \cup { M_get })
    /\ Done(p) /\ Len(Outputs(p)) = 1

\* C10: the alias modes getset and get_and_set run the operations of
\* get-and-set, and the value they upload is strictly greater than the value
\* they retrieved.
C10_AliasesLikeGetAndSet ==
  \A p \in Procs :
    (Started(p) /\ inv[p].mode \in { M_getset, M_get_and_set_u })
      => /\ inv[p].operations = deriveOperations(M_get_and_set)
         /\ (inv[p].pc \in { "upload", "done" } /\ Truthy(inv[p].retrieved))
              => StrLess(inv[p].retrieved, inv[p].now)

-----------------------------------------------------------------------------
(* Claims on the handling of a missing or invalid previous value *)

\* the warnings the invocation has logged, in order
Warnings(p) == EventsOf(p, "warning")

\* no value that passes validation can be extracted from the newest
\* non-expired last-run artifact, or there is no such artifact
NothingValidStored(artifacts) ==
  \A a \in NewestViable(artifacts) :
    ~(a.kind = "file" /\ validateIsoTimestamp(Trim(a.content)).ok)

\* C11: in mode get with failIfMissing true, when there is no prior artifact
\* or the value extracted from it fails validation, the ended invocation has
\* been marked failed, once, with the message "No valid previous run timestamp
\* found.", and has emitted no output.
C11_MissingFailsWithoutOutput ==
  \A p \in Procs :
    (inv[p].mode = M_get /\ inv[p].failIfMissing /\ Done(p)
       /\ NothingValidStored(store))
      => /\ EventsOf(p, "setFailed") = << Event("setFailed", MissingMsg) >>
         /\ Outputs(p) = << >>
         /\ inv[p].retrieved = Null

\* C11 witness: such an invocation has ended failed after a listing that
\* returned no artifact
C11_Witness ==
  \E p \in Procs :
    /\ inv[p].mode = M_get /\ inv[p].failIfMissing /\ Done(p)
    /\ store = << >> /\ Returned(p, "list") /\ Failed(p)

\* C11 witness of the second case: it ended failed on downloaded content that
\* fails validation
C11_WitnessInvalid ==
  \E p \in Procs :
    /\ inv[p].mode = M_get /\ inv[p].failIfMissing /\ Done(p)
    /\ store = << Stored(NotATimestamp) >> /\ Returned(p, "download")
    /\ Failed(p)

\* mode get, failIfMissing false, the one prior artifact holds not-a-timestamp
NotATimestampCase(p) ==
  /\ inv[p].mode = M_get /\ ~inv[p].failIfMissing /\ Done(p)
  /\ store = << Stored(NotATimestamp) >>

\* C12 as stated: with prior content not-a-timestamp, mode get and
\* failIfMissing false, the invocation (its listing and download having
\* returned) emits no output, logs exactly one warning and is not marked failed.
C12_ExactlyOneWarning ==
  \A p \in Procs :
    (NotATimestampCase(p) /\ Returned(p, "download"))
      => /\ Outputs(p) = << >>
         /\ Len(Warnings(p)) = 1
         /\ ~Failed(p)

\* C12 amended: in that case the invocation emits no output and is not marked
\* failed; its last warning, logged once, is that no valid previous run
\* timestamp was found, and when the content has been downloaded it has logged
\* exactly two warnings, the first one reporting the invalid format of the
\* content.
C12_FormatWarningThenMissingWarning ==
  \A p \in Procs :
    NotATimestampCase(p)
      => /\ Outputs(p) = << >>
         /\ ~Failed(p)
         /\ Len(Warnings(p)) \in { 1, 2 }
         /\ Warnings(p)[Len(Warnings(p))] = Event("warning", MissingMsg)
         /\ inv[p].trace[Len(inv[p].trace)] = Event("warning", MissingMsg)
         /\ Returned(p, "download")
              => Warnings(p) =
                   << Event("warning",
                            Msg("Invalid timestamp format in artifact: '")
                              \o NotATimestamp \o Msg("'")),
                      Event("warning", MissingMsg) >>
         /\ (Len(Warnings(p)) = 1) <=> (Positions(p, "list") = {})

\* C12 witness: the content was downloaded and the two warnings are logged
C12_Witness ==
  \E p \in Procs :
    /\ NotATimestampCase(p) /\ Returned(p, "download")
    /\ Len(Warnings(p)) = 2

-----------------------------------------------------------------------------
(* Claims on what marks an invocation failed *)

\* the positions in the trace of the calls of this kind that threw
Thrown(p, call) ==
  { i \in Positions(p, call) : inv[p].trace[i].val = Msg("throw") }

\* a retrieval was performed and yielded no valid timestamp
RetrievedNothing(p) ==
  /\ inv[p].operations.get
  /\ inv[p].pc \in { "setLastRun", "upload", "done" }
  /\ inv[p].retrieved = Null

\* C13: when the upload step fails, in mode set or in a combined mode, the
\* error reaches run(): the invocation ends marked failed with the message of
\* the upload error, as the call that follows the upload, and no warning is
\* logged in its place.
C13_UploadFailureMarksFailed ==
  \A p \in Procs :
    \A u \in Thrown(p, "upload") :
      /\ inv[p].mode \in StoringModes
      /\ Done(p)
      /\ inv[p].error # Null
      /\ Len(inv[p].trace) = u + 1
      /\ inv[p].trace[u + 1] = Event("setFailed", failureMessage(inv[p].error[1]))
      /\ inv[p].error[1] # "" => inv[p].trace[u + 1].val = inv[p].error
      /\ \A w \in Positions(p, "warning") : w < u

\* C13 witness: a combined-mode invocation and its failed upload
C13_Witness ==
  \E p \in Procs :
    /\ inv[p].mode = M_get_and_set /\ Done(p)
    /\ Thrown(p, "upload") # {}
    /\ inv[p].error = Msg("boom-upload")
    /\ EventsOf(p, "setFailed") = << Event("setFailed", Msg("boom-upload")) >>

\* C14: an invocation is marked failed only if failIfMissing is true and a
\* retrieval was performed that yielded no valid timestamp, or if the upload
\* step failed; no error leaves the retrieval path: after a listing or a
\* download that threw, run() has caught no error, the invocation goes on to
\* its store step, and without failIfMissing it is not marked failed by it.
C14_FailedOnlyByMissingOrUpload ==
  \A p \in Procs :
    /\ Failed(p)
         => \/ inv[p].failIfMissing /\ RetrievedNothing(p)
            \/ Thrown(p, "upload") # {}
    /\ \A f \in Positions(p, "setFailed") :
         \/ /\ inv[p].trace[f].val = MissingMsg
            /\ inv[p].failIfMissing /\ RetrievedNothing(p)
            /\ \A u \in Positions(p, "upload") : f < u
         \/ f - 1 \in Thrown(p, "upload")
    /\ inv[p].error # Null => Thrown(p, "upload") # {}
    /\ (Thrown(p, "list") # {} \/ Thrown(p, "download") # {})
         => /\ inv[p].pc \in { "validate", "setLastRun", "upload", "done" }
            /\ (Done(p) /\ inv[p].operations.set) => Positions(p, "upload") # {}
            /\ (~inv[p].failIfMissing /\ Thrown(p, "upload") = {}) => ~Failed(p)

\* C14 witness: a combined-mode invocation whose download threw has stored its
\* value and is not marked failed
C14_Witness ==
  \E p \in Procs :
    /\ inv[p].mode \in CombinedModes /\ Done(p)
    /\ Thrown(p, "download") # {}
    /\ Returned(p, "upload") /\ ~Failed(p)

-----------------------------------------------------------------------------
(* Claims on fetchLatestRepoArtifact *)

\* fetchLatestRepoArtifact has returned to downloadTimestamp, and the store is
\* still the one it listed
Located(p) ==
  /\ Returned(p, "list")
  /\ inv[p].pc \in { "download", "validate", "setLastRun", "upload" }

\* the non-expired artifacts of the listing
ListedViable(r, artifacts) ==
  LET listed == listing(r, artifacts)
  IN  { listed[i] : i \in { k \in 1..Len(listed) : ~listed[k].expired } }

\* C15: the artifact fetchLatestRepoArtifact returns is a listed artifact that
\* is not expired; it returns none exactly when every listed artifact is
\* expired (or none is listed), and with a newer expired artifact and an older
\* one that is not, it returns the older.
C15_NeverAnExpiredArtifact ==
  \A p \in Procs :
    Located(p)
      => /\ \A i \in 1..Len(inv[p].latest) :
              /\ ~inv[p].latest[i].expired
              /\ inv[p].latest[i] \in ListedViable(rev, store)
         /\ (inv[p].latest = << >>) <=> (ListedViable(rev, store) = {})
         /\ (Len(store) = 2 /\ ~store[1].expired /\ store[2].expired
               /\ store[1].name = ARTIFACT_NAME
               /\ StrLess(store[1].created_at, store[2].created_at))
              => inv[p].latest = << store[1] >>

\* C15 witness: the older artifact is returned, the newer one being expired
C15_Witness ==
  \E p \in Procs :
    /\ Located(p) /\ Len(store) = 2
    /\ store[2].expired /\ StrLess(store[1].created_at, store[2].created_at)
    /\ inv[p].latest = << store[1] >>

\* C15 witness of the other case: every listed artifact is expired and none
\* is returned
C15_WitnessAllExpired ==
  \E p \in Procs :
    /\ Located(p) /\ Len(store) = 1 /\ store[1].expired
    /\ inv[p].latest = << >>

\* C16: when a non-expired artifact is listed, the created_at of the artifact
\* fetchLatestRepoArtifact returns is greater than or equal to the created_at
\* of every non-expired listed artifact, in whichever order they are listed.
C16_LatestIsGreatest ==
  \A p \in Procs :
    (Located(p) /\ ListedViable(rev, store) # {})
      => /\ inv[p].latest # << >>
         /\ \A a \in ListedViable(rev, store) :
              StrLeq(a.created_at, inv[p].latest[1].created_at)

\* C16 witness: of two non-expired artifacts the newer, listed first, is
\* returned
C16_Witness ==
  \E p \in Procs :
    /\ Located(p) /\ Len(store) = 2
    /\ \A i \in 1..2 : ~store[i].expired /\ store[i].name = ARTIFACT_NAME
    /\ StrLess(store[2].created_at, store[1].created_at)
    /\ inv[p].latest = << store[1] >>

\* C16 witness of the other order: the newer artifact, listed last, is returned
C16_WitnessListedLast ==
  \E p \in Procs :
    /\ Located(p) /\ Len(store) = 2
    /\ \A i \in 1..2 : ~store[i].expired /\ store[i].name = ARTIFACT_NAME
    /\ StrLess(store[1].created_at, store[2].created_at)
    /\ inv[p].latest = << store[2] >>

-----------------------------------------------------------------------------
(* Claims on the retrying of remote calls *)

\* the calls of this kind the invocation has made
Calls(p, call) == Cardinality(Positions(p, call))

\* the listing of the invocation is over
ListingOver(p) ==
  /\ Positions(p, "list") # {}
  /\ inv[p].pc \in { "download", "validate", "setLastRun", "upload" }

\* C17: a remote operation that fails k <= Retries times and then succeeds is
\* invoked k + 1 times and its success value is returned: a listing that is to
\* fail once or twice has been called k + 1 times when it is over, has
\* returned, and its artifacts have been handed to fetchLatestRepoArtifact.
C17_RetriedUntilSuccess ==
  \A p \in Procs :
    (ListingOver(p) /\ inv[p].listFails \in 0..Retries)
      => /\ Calls(p, "list") = inv[p].listFails + 1
         /\ Returned(p, "list")
         /\ inv[p].latest = fetchLatestRepoArtifact(listing(rev, store))

\* C18: when the listing fails on every attempt, listRepoArtifactsByName has
\* made Retries + 1 attempts, no artifact is found, a warning is logged and no
\* error has reached run().
C18_ExhaustedListingIsEmpty ==
  \A p \in Procs :
    (ListingOver(p) /\ inv[p].listFails > Retries)
      => /\ Calls(p, "list") = Retries + 1
         /\ inv[p].latest = << >>
         /\ Warnings(p) # << >>
         /\ inv[p].error = Null

\* C19: an upload that fails k <= Retries times and then succeeds is retried:
\* the invocation ends with the value stored, the upload called k + 1 times,
\* and not marked failed on account of the upload.
C19_UploadRetried ==
  \A p \in Procs :
    (Done(p) /\ inv[p].operations.set /\ inv[p].uploadFails \in 1..Retries)
      => /\ Returned(p, "upload")
         /\ Calls(p, "upload") = inv[p].uploadFails + 1
         /\ inv[p].error = Null
         /\ \E i \in 1..Len(store) : store[i].content = inv[p].now
         /\ ~(inv[p].failIfMissing /\ RetrievedNothing(p)) => ~Failed(p)

-----------------------------------------------------------------------------
(* Claims on validateIsoTimestamp *)

\* downloadTimestampWithValidation has validated the value of downloadTimestamp
Validated(p) == inv[p].validation # NoValidation

\* a string of white space only, the empty string included
IsBlank(v) == v # Null /\ \A i \in 1..Len(v) : IsSpace(v[i])

\* C20 as stated: validateIsoTimestamp returns {ok: false, reason: "empty"} for
\* every candidate that is absent, the empty string or a string of white space
\* only.
C20_AbsentEmptyOrBlankIsEmpty ==
  \A p \in Procs :
    (Validated(p) /\ (inv[p].raw = Null \/ IsBlank(inv[p].raw)))
      => inv[p].validation = [ok |-> FALSE, reason |-> "empty"]

\* C20 amended: validateIsoTimestamp returns {ok: false, reason: "empty"} for
\* the absent candidate and for the empty string, and for no other; a string
\* of white space only that is not empty is rejected with reason "pattern".
C20_AbsentOrEmptyIsEmpty ==
  \A p \in Procs :
    Validated(p)
      => /\ (inv[p].raw = Null \/ inv[p].raw = << >>)
              <=> (inv[p].validation = [ok |-> FALSE, reason |-> "empty"])
         /\ (IsBlank(inv[p].raw) /\ inv[p].raw # << >>)
              => inv[p].validation = [ok |-> FALSE, reason |-> "pattern"]

\* C20 witness: a value of white space only has been validated, with reason
\* "pattern"
C20_Witness ==
  \E p \in Procs :
    /\ Validated(p) /\ inv[p].raw = Blank
    /\ inv[p].validation.reason = "pattern"

\* C20 witness of the empty string: validated with reason "empty"
C20_WitnessEmpty ==
  \E p \in Procs :
    /\ Validated(p) /\ inv[p].raw = << >>
    /\ inv[p].validation.reason = "empty"

-----------------------------------------------------------------------------
(* The grammar of a stored timestamp, and the calendar *)

\* every character of s is a decimal digit
Digits(s) == \A i \in 1..Len(s) : IsDigit(s[i])

\* the n characters of s from position from
Field(s, from, n) == SubSeq(s, from, from + n - 1)

\* s is YYYY-MM-DDTHH:mm:ss, then nothing or a dot and at least one digit,
\* then a literal Z
MatchesGrammar(s) ==
  /\ Len(s) >= 20
  /\ s[Len(s)] = "Z"
  /\ Digits(Field(s, 1, 4)) /\ Field(s, 5, 1) = << "-" >>
  /\ Digits(Field(s, 6, 2)) /\ Field(s, 8, 1) = << "-" >>
  /\ Digits(Field(s, 9, 2)) /\ Field(s, 11, 1) = << "T" >>
  /\ Digits(Field(s, 12, 2)) /\ Field(s, 14, 1) = << ":" >>
  /\ Digits(Field(s, 15, 2)) /\ Field(s, 17, 1) = << ":" >>
  /\ Digits(Field(s, 18, 2))
  /\ LET fraction == SubSeq(s, 20, Len(s) - 1)
     IN  \/ fraction = << >>
         \/ Len(fraction) >= 2 /\ fraction[1] = "." /\ Digits(Tail(fraction))

\* the days of the month of the year
DaysInMonth(year, month) ==
  IF month \in { 4, 6, 9, 11 } THEN 30
  ELSE IF month # 2 THEN 31
  ELSE IF year % 4 = 0 /\ (year % 100 # 0 \/ year % 400 = 0) THEN 29
  ELSE 28

\* a string of the grammar denotes an instant of the calendar
CalendarValid(s) ==
  LET year == 100 * Num2(s, 1) + Num2(s, 3)
      month == Num2(s, 6)
  IN  /\ month \in 1..12
      /\ Num2(s, 9) \in 1..DaysInMonth(year, month)
      /\ Num2(s, 12) \in 0..23
      /\ Num2(s, 15) \in 0..59
      /\ Num2(s, 18) \in 0..59

C22_ValidInstantIsOk ==
  \A p \in Procs :
    (Validated(p) /\ inv[p].raw # Null /\ MatchesGrammar(inv[p].raw)
       /\ CalendarValid(inv[p].raw))
      => inv[p].validation = [ok |-> TRUE, reason |-> "none"]

\* C22 witness: a value with nine fraction digits has been accepted
C22_Witness ==
  \E p \in Procs :
    /\ Validated(p) /\ inv[p].raw = LongFraction
    /\ inv[p].validation.ok

\* C22 witness without fractional seconds: a leap day has been accepted
C22_WitnessNoFraction ==
  \E p \in Procs :
    /\ Validated(p) /\ inv[p].raw = LeapDay
    /\ inv[p].validation.ok

-----------------------------------------------------------------------------
(* Claims on the retrieval without a token and on the extraction *)

\* C23: when no access token is set, the retrieval issues no list and no
\* download call and yields none; with failIfMissing false the invocation then
\* ends without an output, with the missing-timestamp warning as its one
\* warning, and not marked failed (unless its upload fails).
C23_NoTokenNoCall ==
  \A p \in Procs :
    (Started(p) /\ inv[p].env = NoEnv)
      => /\ Positions(p, "list") = {} /\ Positions(p, "download") = {}
         /\ inv[p].latest = << >> /\ inv[p].raw = Null
         /\ inv[p].retrieved = Null
         /\ Outputs(p) = << >>
         /\ (Done(p) /\ inv[p].operations.get /\ ~inv[p].failIfMissing)
              => /\ Warnings(p) = << Event("warning", MissingMsg) >>
                 /\ Thrown(p, "upload") = {} => ~Failed(p)

\* C23 witness: mode get without a token has ended on the warning alone
C23_Witness ==
  \E p \in Procs :
    /\ inv[p].mode = M_get /\ inv[p].env = NoEnv /\ ~inv[p].failIfMissing
    /\ Done(p) /\ ~Failed(p)
    /\ inv[p].trace = << Event("warning", MissingMsg) >>
    /\ store # << >>

\* the download of the located artifact has returned, and the artifact is of
\* this kind
Downloaded(p, kind) ==
  /\ Returned(p, "download")
  /\ inv[p].latest # << >>
  /\ inv[p].latest[1].kind = kind

\* C24: when the download of the located artifact holds neither the plain
\* file last-run.txt nor that entry of the archive, the extraction yields none
\* and no error reaches run(): the invocation goes on as without a prior
\* timestamp, emits no output, and is marked failed only if failIfMissing is
\* true (or its upload fails).
C24_PayloadAbsentIsNone ==
  \A p \in Procs :
    Downloaded(p, "nofile")
      => /\ inv[p].raw = Null
         /\ inv[p].retrieved = Null
         /\ Outputs(p) = << >>
         /\ rev # 2 => \A w \in Positions(p, "warning") :
                         inv[p].trace[w].val = MissingMsg
         /\ inv[p].error # Null => Thrown(p, "upload") # {}
         /\ Failed(p) => (inv[p].failIfMissing \/ Thrown(p, "upload") # {})
         /\ (Done(p) /\ inv[p].operations.set) => Positions(p, "upload") # {}
         /\ (Done(p) /\ inv[p].failIfMissing)
              => \E f \in Positions(p, "setFailed") : inv[p].trace[f].val = MissingMsg

\* C24 witness: mode get has ended not failed and without an output after
\* the download of an artifact that holds no last-run.txt
C24_Witness ==
  \E p \in Procs :
    /\ Downloaded(p, "nofile") /\ inv[p].mode = M_get /\ Done(p)
    /\ ~inv[p].failIfMissing /\ ~Failed(p) /\ Outputs(p) = << >>

\* C25: when the archive of the located artifact is corrupt, the failure to
\* open or read it is caught: a warning is logged directly after the download,
\* the extraction yields none, no error reaches run(), and the invocation is
\* marked failed only if failIfMissing is true (or its upload fails).
C25_CorruptArchiveIsWarning ==
  \A p \in Procs :
    \A d \in Positions(p, "download") :
      (inv[p].latest # << >> /\ inv[p].latest[1].kind = "corrupt")
        => /\ inv[p].raw = Null
           /\ inv[p].retrieved = Null
           /\ Outputs(p) = << >>
           /\ d + 1 \in Positions(p, "warning")
           /\ inv[p].trace[d].val = Msg("ok")
                => inv[p].trace[d + 1].val = Msg("Failed to extract zip")
           /\ inv[p].error # Null => Thrown(p, "upload") # {}
           /\ Failed(p) => (inv[p].failIfMissing \/ Thrown(p, "upload") # {})
           /\ (Done(p) /\ inv[p].operations.set) => Positions(p, "upload") # {}

\* C25 witness: a combined-mode invocation has met a corrupt archive, warned,
\* stored its value and ended not failed
C25_Witness ==
  \E p \in Procs :
    /\ Downloaded(p, "corrupt") /\ inv[p].mode \in CombinedModes /\ Done(p)
    /\ \E w \in Positions(p, "warning") :
         inv[p].trace[w].val = Msg("Failed to extract zip")
    /\ Returned(p, "upload") /\ ~Failed(p)

\* C26: the extraction returns the payload trimmed, from a plain file as from
\* an archive entry: once the download of the timestamp file has returned the
\* retrieved text is the file's content trimmed, and a valid timestamp followed
\* by a newline or spaces is emitted as the last-run output.
C26_TrimmedPayloadRetrieved ==
  \A p \in Procs :
    Downloaded(p, "file")
      => /\ inv[p].raw = Trim(inv[p].latest[1].content)
         /\ (Done(p) /\ validateIsoTimestamp(Trim(inv[p].latest[1].content)).ok)
              => Outputs(p) = << Event("setOutput", Trim(inv[p].latest[1].content)) >>

C27_WitnessArchive ==
  /\ extracted # << >>
  /\ payload = Payload(NoFile, TRUE, "zip", FileWith(T0 \o << "\n" >>))
  /\ extracted[1].value = T0

\* C27 witness: neither the plain file nor an indicated archive: none
C27_WitnessNeither ==
  /\ extracted # << >>
  /\ payload = Payload(NoFile, FALSE, "zip", FileWith(T0))
  /\ extracted[1].value = Null

\* an invocation in a combined mode that has finished its retrieval and has not
\* yet made its own upload
BetweenRetrievalAndUpload(r) ==
  r.mode \in CombinedModes /\ r.pc \in { "setLastRun", "upload" }

\* C28: a get-and-set invocation captures the prior value and updates it
\* atomically: between its retrieval of the previous value and its own upload
\* no step of another invocation changes the artifacts of the store.
C28_GetAndSetIsAtomic ==
  [][\A p \in Procs :
       (BetweenRetrievalAndUpload(inv[p]) /\ inv'[p] = inv[p])
         => store' = store]_vars

\* the stages of one invocation
Retrieving(r) == r.pc \in { "getLastRun", "download", "validate" }
Storing(r) == r.pc \in { "setLastRun", "upload" }

\* C29: within one invocation the remote calls are strictly ordered and none
\* is issued while another is pending: the one list call comes before the one
\* download call, each has returned or failed before the upload is issued,
\* nothing of Storing has happened while the invocation is Retrieving, an
\* invocation that retrieves enters Storing only from the end of Retrieving,
\* and never goes from Storing back to Retrieving.
C29_RetrievalCompleteBeforeStoring ==
  /\ [](\A p \in Procs :
          /\ Cardinality(Positions(p, "list")) <= 1
          /\ Cardinality(Positions(p, "download")) <= 1
          /\ Cardinality(Positions(p, "upload")) <= 1
          /\ \A l \in Positions(p, "list"), d \in Positions(p, "download") :
               l < d /\ inv[p].trace[l].val = Msg("ok")
          /\ \A c \in Positions(p, "list") \cup Positions(p, "download"),
                u \in Positions(p, "upload") :
               c < u /\ inv[p].trace[c].val \in { Msg("ok"), Msg("throw") }
          /\ Retrieving(inv[p])
               => Positions(p, "upload") = {} /\ inv[p].now = Null
          /\ (inv[p].operations.get /\ (Storing(inv[p]) \/ Done(p)))
               => inv[p].validation # NoValidation)
  /\ [][\A p \in Procs :
          /\ (Storing(inv'[p]) /\ ~Storing(inv[p]) /\ inv'[p].operations.get)
               => inv[p].pc = "validate"
          /\ Storing(inv[p]) => ~Retrieving(inv'[p])]_vars

\* C29 witness: a combined-mode invocation has listed, downloaded and then
\* uploaded
C29_Witness ==
  \E p \in Procs :
    /\ inv[p].mode \in CombinedModes /\ Done(p)
    /\ \E l \in Positions(p, "list"), d \in Positions(p, "download"),
          u \in Positions(p, "upload") : l < d /\ d < u

\* C30: round trip across invocations: after an invocation has stored V and
\* its artifact is the newest non-expired last-run artifact, a following
\* invocation in mode get emits no other value than V, and emits V exactly
\* once when its listing and its download have returned.
C30_RoundTrip ==
  \A p \in Procs :
    (inv[p].mode = M_get /\ Done(p) /\ history # << >>)
      => LET V == history[Len(history)].uploaded
         IN  \A a \in NewestViable(store) :
               (Cardinality(NewestViable(store)) = 1 /\ a.id = Len(store))
                 => /\ \A i \in 1..Len(Outputs(p)) : Outputs(p)[i].val = V
                    /\ (Returned(p, "list") /\ Returned(p, "download"))
                         => Outputs(p) = << Event("setOutput", V) >>

\* C30 witness: a get invocation has emitted the value the invocation before
\* it stored on top of an older artifact
C30_Witness ==
  \E p \in Procs :
    /\ inv[p].mode = M_get /\ Done(p) /\ Len(history) = 1 /\ Len(store) = 2
    /\ \E a \in NewestViable(store) : a.id = Len(store)
    /\ Outputs(p) = << Event("setOutput", history[1].uploaded) >>
    /\ history[1].uploaded # T0

\* the place in the store of the non-expired last-run artifact that last
\* writer wins selects: greatest created_at, the last listed of equals
LastWriter(artifacts) ==
  LET viable == { i \in 1..Len(artifacts) :
                    artifacts[i].name = ARTIFACT_NAME /\ ~artifacts[i].expired }
      newest == { k \in viable :
                    \A j \in viable :
                      StrLeq(artifacts[j].created_at, artifacts[k].created_at) }
  IN  { k \in newest : \A j \in newest : j <= k }

\* C31: with invocations running concurrently there is no locking: a retrieval
\* locates the non-expired last-run artifact with the greatest created_at that
\* the store holds when it lists, whoever uploaded it and whatever value it
\* holds, and returns that artifact's content.
C31_LastWriterWins ==
  /\ [][\A p \in Procs :
          (inv[p].pc = "getLastRun" /\ inv'[p].pc = "download")
            => \E k \in LastWriter(store) : inv'[p].latest = << store[k] >>]_vars
  /\ [](\A p \in Procs :
          Downloaded(p, "file")
            => /\ Trim(inv[p].raw) = Trim(inv[p].latest[1].content)
               /\ (inv[p].pc \in { "setLastRun", "upload", "done" }
                    /\ validateIsoTimestamp(inv[p].raw).ok)
                    => inv[p].retrieved = inv[p].raw)

\* C31 witness: two invocations have retrieved the same previous value and
\* both have uploaded, and a later retrieval has returned the value of the
\* last writer, which is not the greatest value uploaded
C31_Witness ==
  \E p \in Procs :
    /\ Len(history) = 2
    /\ history[1].retrieved = T0 /\ history[2].retrieved = T0
    /\ StrLess(history[2].uploaded, history[1].uploaded)
    /\ inv[p].mode = M_get /\ Done(p) /\ Returned(p, "download")
    /\ Outputs(p) = << Event("setOutput", history[2].uploaded) >>

\* the last successful upload was a seeding one: a combined-mode invocation
\* with failIfMissing true that had retrieved no valid timestamp
Seeded ==
  /\ history # << >>
  /\ history[Len(history)].operations = [get |-> TRUE, set |-> TRUE]
  /\ history[Len(history)].failIfMissing
  /\ history[Len(history)].retrieved = Null

\* C32: seeding: after a get-and-set invocation with failIfMissing true has
\* found no valid timestamp and has uploaded, a following invocation in mode
\* get whose listing and download return, with that upload the newest
\* non-expired last-run artifact, emits the uploaded value, which is valid,
\* and is not marked failed, whatever its own failIfMissing.
C32_SeededForTheNextGet ==
  \A p \in Procs :
    (inv[p].mode = M_get /\ Done(p) /\ Seeded
       /\ Returned(p, "list") /\ Returned(p, "download"))
      => \A a \in NewestViable(store) :
           (Cardinality(NewestViable(store)) = 1 /\ a.id = Len(store))
             => /\ validateIsoTimestamp(history[Len(history)].uploaded).ok
                /\ inv[p].retrieved = history[Len(history)].uploaded
                /\ Outputs(p) = << Event("setOutput", history[Len(history)].uploaded) >>
                /\ ~Failed(p)
                /\ inv[p].error = Null

\* C32 witness: the invocation after a seeding one, in mode get with
\* failIfMissing true, has emitted the seed and is not failed
C32_Witness ==
  \E p \in Procs :
    /\ inv[p].mode = M_get /\ Done(p) /\ inv[p].failIfMissing /\ Seeded
    /\ Len(history) = 1 /\ Len(store) = 1
    /\ Outputs(p) = << Event("setOutput", history[1].uploaded) >>
    /\ ~Failed(p)

\* C33: every value handed to the upload call is a timestamp that
\* validateIsoTimestamp accepts, in every storing mode and for every previous
\* value, the regeneration loop ended by its cap included; so is every value
\* an upload has stored.
C33_UploadedValueIsValid ==
  /\ \A p \in Procs :
       (inv[p].pc \in { "upload", "done" } /\ inv[p].operations.set)
         => /\ validateIsoTimestamp(inv[p].now).ok
            /\ MatchesGrammar(inv[p].now) /\ CalendarValid(inv[p].now)
  /\ \A i \in 1..Len(history) : validateIsoTimestamp(history[i].uploaded).ok
  /\ \A p \in Procs :
       Returned(p, "upload")
         => \E i \in 1..Len(store) :
              store[i].content = inv[p].now /\ store[i].kind = "file"

\* C33 witness: a combined-mode invocation whose loop ran into its cap over a
\* previous value in the future has uploaded a valid timestamp
C33_Witness ==
  \E p \in Procs :
    /\ inv[p].mode \in CombinedModes /\ Returned(p, "upload")
    /\ inv[p].retrieved = TFuture /\ inv[p].safeguard = SafeguardCap
    /\ validateIsoTimestamp(inv[p].now).ok

\* C33 witness: mode set has uploaded a valid timestamp
C33_WitnessSet ==
  \E p \in Procs :
    /\ inv[p].mode = M_set /\ Returned(p, "upload")
    /\ validateIsoTimestamp(inv[p].now).ok

\* Date.parse(s) of a string validateIsoTimestamp accepts, as the fields of the
\* instant from the year down to the millisecond (V8 reads three fraction
\* digits and drops the rest); for instants of the calendar the order of
\* these fields is the order of the instants
DateParse(s) ==
  LET fraction == SubSeq(s, 21, Len(s) - 1)
      digit(i) == IF i <= Len(fraction) THEN DigitVal(fraction[i]) ELSE 0
  IN  << 100 * Num2(s, 1) + Num2(s, 3), Num2(s, 6), Num2(s, 9),
         Num2(s, 12), Num2(s, 15), Num2(s, 18),
         100 * digit(1) + 10 * digit(2) + digit(3) >>

\* a < b for two such instants
RECURSIVE InstantLess(_, _)
InstantLess(a, b) ==
  /\ a # << >>
  /\ \/ Head(a) < Head(b)
     \/ Head(a) = Head(b) /\ InstantLess(Tail(a), Tail(b))

\* C34: for every previous value the validator accepts, with three fraction
\* digits, with none or with another number of them, the value setLastRun
\* hands to the upload after its loop has ended by its condition denotes an
\* instant later than the instant previous denotes.
C34_UploadedIsChronologicallyLater ==
  \A p \in Procs :
    (inv[p].pc \in { "upload", "done" } /\ inv[p].operations.set
       /\ Truthy(inv[p].retrieved) /\ inv[p].safeguard < SafeguardCap)
      => InstantLess(DateParse(inv[p].retrieved), DateParse(inv[p].now))

\* C35: the paged listing with the client-side name filter issues at most 10
\* list calls, each asking for 100 items: it goes on exactly while every page
\* received was full and fewer than 10 calls were made, and stops at the first
\* page shorter than 100 or after the call for page 10, whatever the pages
\* hold.
C35_AtMostTenPages ==
  /\ paging.calls <= PageCap
  /\ paging.pc = "loop"
       => /\ paging.page = paging.calls + 1
          /\ paging.page <= PageCap
          /\ paging.calls > 0 => paging.got >= PerPage
  /\ paging.pc = "returned"
       => /\ paging.calls >= 1
          /\ \/ paging.got < PerPage /\ paging.page = paging.calls
             \/ /\ paging.got >= PerPage
                /\ paging.calls = PageCap
                /\ paging.page = PageCap + 1
  /\ paging.matches <= paging.calls

\* C35 witness: the listing has stopped after its tenth full page
C35_Witness ==
  /\ paging.pc = "returned" /\ paging.calls = PageCap
  /\ paging.got > PerPage /\ paging.matches = PageCap

\* C35 witness: the listing has stopped at a short third page
C35_WitnessShortPage ==
  /\ paging.pc = "returned" /\ paging.calls = 3 /\ paging.got = PerPage - 1

\* how far an invocation is: the places of run() in the order it passes them
Stage(pc) ==
  CASE pc \in { "idle", "off" } -> 0
    [] pc = "getLastRun" -> 1
    [] pc = "download" -> 2
    [] pc = "validate" -> 3
    [] pc = "setLastRun" -> 4
    [] pc = "upload" -> 5
    [] pc = "done" -> 6

\* C36: every invocation that has started ends (Done, or Failed, which is Done
\* after core.setFailed), in every mode, with either failIfMissing and for
\* every outcome of its remote calls, provided each call returns or fails:
\* an invocation that has not ended always has a step to take (the
\* regeneration loop leaves by its cap at the latest), every step takes it
\* further, and so it reaches its end.
C36_EveryInvocationEnds ==
  /\ [](\A p \in Procs :
          (Started(p) /\ ~Done(p))
            => ENABLED (\/ fetchLatest(p) \/ downloadTimestamp(p) \/ getLastRun(p)
                        \/ setLastRun(p) \/ uploadTimestamp(p)))
  /\ [][\A p \in Procs :
          (inv'[p] # inv[p] /\ Started(p))
            => Stage(inv'[p].pc) > Stage(inv[p].pc)]_vars
  /\ \A p \in Procs : (Started(p) ~> Done(p))

\* C36 witness: an invocation has ended after its regeneration loop ran into
\* the cap and its upload failed
C36_Witness ==
  \E p \in Procs :
    /\ Done(p) /\ Failed(p) /\ inv[p].safeguard = SafeguardCap
    /\ Thrown(p, "upload") # {}

\* s begins with prefix
StartsWith(s, prefix) ==
  Len(s) >= Len(prefix) /\ SubSeq(s, 1, Len(prefix)) = prefix

\* the warnings about a rejected value: invalid format, parse failed
FormatWarnings(p) ==
  SelectSeq(Warnings(p),
            LAMBDA e : \/ StartsWith(e.val, Msg("Invalid timestamp format in artifact: '"))
                       \/ StartsWith(e.val, Msg("Timestamp parse failed: '")))

\* C37: once a retrieval is over, a value rejected for its pattern has been
\* warned about as an invalid format and a value rejected by the parse as a
\* parse failure, each warning naming the value; absence (no token, no
\* artifact, no entry, a failed call, an empty file) has logged no such
\* warning; in each of these cases nothing is retrieved, no output is emitted
\* and the missing timestamp is reported.
C37_WarningTellsRejectionFromAbsence ==
  \A p \in Procs :
    (Validated(p) /\ inv[p].operations.get)
      => LET v == inv[p].validation
             raw == inv[p].raw
         IN  /\ v.ok => FormatWarnings(p) = << >> /\ inv[p].retrieved = raw
             /\ ~v.ok
                  => /\ inv[p].retrieved = Null
                     /\ Outputs(p) = << >>
                     /\ \E i \in Positions(p, "warning") \cup Positions(p, "setFailed") :
                          inv[p].trace[i].val = MissingMsg
                     /\ v.reason = "pattern"
                          => FormatWarnings(p)
                               = << Event("warning",
                                          Msg("Invalid timestamp format in artifact: '")
                                            \o raw \o Msg("'")) >>
                     /\ v.reason = "parse"
                          => FormatWarnings(p)
                               = << Event("warning",
                                          Msg("Timestamp parse failed: '")
                                            \o raw \o Msg("'")) >>
                     /\ v.reason = "empty"
                          => FormatWarnings(p) = << >> /\ ~Truthy(raw)

\* C37 witness: a value the parse rejects has been warned about as a parse
\* failure
C37_Witness ==
  \E p \in Procs :
    /\ Done(p) /\ inv[p].raw = BadMonth /\ inv[p].validation.ok = FALSE
    /\ inv[p].validation.reason = "parse"
    /\ Len(FormatWarnings(p)) = 1 /\ inv[p].retrieved = Null

\* C37 witness: a value the pattern rejects has been warned about
C37_WitnessPattern ==
  \E p \in Procs :
    /\ Done(p) /\ inv[p].raw = NotATimestamp
    /\ inv[p].validation.reason = "pattern"
    /\ Len(FormatWarnings(p)) = 1 /\ inv[p].retrieved = Null

\* C37 witness: absence has been reported without a format warning
C37_WitnessAbsence ==
  \E p \in Procs :
    /\ Done(p) /\ inv[p].operations.get /\ store = << >> /\ Returned(p, "list")
    /\ inv[p].validation.reason = "empty"
    /\ FormatWarnings(p) = << >> /\ Len(Warnings(p)) = 1

\* the artifacts stored under another name than last-run
OtherNamed(artifacts) == { k \in 1..Len(artifacts) : artifacts[k].name # ARTIFACT_NAME }

\* C38: the artifact an invocation has located is a stored artifact named
\* last-run, the download it made is of that artifact, and a value it has
\* retrieved is the content of a non-expired last-run artifact; an artifact
\* of another name is none of these, though it be the newest one stored.
C38_OnlyLastRunArtifacts ==
  \A p \in Procs :
    /\ inv[p].latest # << >>
         => /\ inv[p].latest[1].name = ARTIFACT_NAME
            /\ \E k \in 1..Len(store) : store[k] = inv[p].latest[1]
    /\ Returned(p, "download") => inv[p].latest # << >>
    /\ Truthy(inv[p].retrieved)
         => /\ inv[p].latest # << >>
            /\ Trim(inv[p].retrieved) = Trim(inv[p].latest[1].content)
            /\ \A k \in OtherNamed(store) : inv[p].latest[1] # store[k]

\* C38 witness: an artifact of another name is newer than every last-run
\* artifact, and the invocation has emitted the content of the last-run one
C38_Witness ==
  \E p \in Procs :
    /\ Done(p) /\ Returned(p, "download")
    /\ \E k \in OtherNamed(store) :
         /\ ~store[k].expired
         /\ \A j \in (1..Len(store)) \ OtherNamed(store) :
              StrLess(store[j].created_at, store[k].created_at)
         /\ Outputs(p) # << Event("setOutput", store[k].content) >>
    /\ Outputs(p) = << Event("setOutput", inv[p].latest[1].content) >>

\* two mode inputs that differ in case or surrounding white space at most
SameButCaseAndSpace(a, b) == ToLowerCase(Trim(a)) = ToLowerCase(Trim(b))

\* the letters the inputs are written in have an upper case
IsUpper(c) == LowerChar(c) # c

\* C39: the mode an invocation dispatches on has no white space around it and
\* no upper-case letter, and is the input but for case and surrounding white
\* space; an input that is empty or white space only has selected get: the
\* retrieval alone; and every input that differs from the invocation's in case
\* or surrounding white space at most selects the operations it has selected.
C39_ModeIsNormalized ==
  \A p \in Procs :
    Started(p)
      => LET mode == inv[p].mode
             input == inv[p].input
         IN  /\ mode # << >>
             /\ ~IsSpace(mode[1]) /\ ~IsSpace(mode[Len(mode)])
             /\ \A i \in 1..Len(mode) : ~IsUpper(mode[i])
             /\ IsBlank(input)
                  => mode = M_get /\ inv[p].operations = [get |-> TRUE, set |-> FALSE]
             /\ ~IsBlank(input) => SameButCaseAndSpace(mode, input)
             /\ \A other \in SpelledModeInputs :
                  SameButCaseAndSpace(other, input)
                    => collectInputs(other, inv[p].failIfMissing).operations
                         = inv[p].operations
             /\ (~inv[p].operations.set /\ Done(p)) => Len(store) <= 1 /\ history = << >>

\* C39 witness: a mode typed in upper case with a trailing space has stored
\* without retrieving, as set does
C39_Witness ==
  \E p \in Procs :
    /\ Done(p) /\ inv[p].input = << "S", "E", "T", " " >> /\ inv[p].mode = M_set
    /\ Len(history) = 1 /\ ~Returned(p, "list") /\ Returned(p, "upload")

\* C39 witness: a mode of white space only has retrieved and not stored
C39_WitnessBlank ==
  \E p \in Procs :
    /\ Done(p) /\ inv[p].input = << " ", "\n" >> /\ inv[p].mode = M_get
    /\ Outputs(p) = << Event("setOutput", T0) >> /\ history = << >>

====
